---- MODULE Spec2Model ----
(***************************************************************************)
(* A model of bullhorn-auth-client: loginToBullhorn (the four-path session *)
(* acquisition), the six protocol operations it is built from and          *)
(* requestWithRetry/doFetch underneath them.  Line numbers refer to        *)
(* src/example/example.js, lines 78-476 (the library's index.js).          *)
(*                                                                         *)
(* Every variable is a function of the acquisition (one call of            *)
(* loginToBullhorn) it belongs to: the library keeps no state of its own.  *)
(* The transport (fetch) is the environment: at every HTTP attempt it      *)
(* answers with any response of a small set, fails, or lets the attempt's  *)
(* timer expire.                                                           *)
(***************************************************************************)
EXTENDS Integers, Sequences, FiniteSets, TLC

VARIABLES
  env,            \* the environment handed to credentialsFromEnv and tokensFromEnv
  envCredentials, \* what credentialsFromEnv(env) returned, once it has been called
  envTokens,      \* what tokensFromEnv(env) returned, once it has been called
  params,      \* the call's first argument: [isObject, tokens, credentials]
  config,      \* the call's second argument: [minRemainingThreshold, ttlDays, http]
  transport,   \* the fetch the call runs against: any, or a stub with a fixed script
  pc,          \* where the call stands: "start", the operation awaited, "done"
  phase,       \* where requestWithRetry stands: "idle", "fetch", "wait", "backoff", "settled"
  attempt,     \* requestWithRetry's attempt counter
  lastError,   \* requestWithRetry's lastError
  timer,       \* doFetch's abort timer is armed
  reply,       \* how the latest requestWithRetry settled: a response or a thrown error
  retryLog,    \* the current requestWithRetry: its fetch calls, onRetryAttempt calls and delays
  requests,    \* the request of every requestWithRetry call of this acquisition, in order
  oauthUrl,    \* loginInfo's oauthUrl, in the block that called it
  restUrl,     \* the REST base URL the block is going to log in to
  r0,          \* step0's return value (refresh block)
  s1,          \* step1's return value (full login)
  s2,          \* step2's return value (full login)
  result       \* the call's outcome: none yet, a returned AuthResult, a thrown error

vars == <<env, envCredentials, envTokens, params, config, transport, pc, phase, attempt, lastError, timer, reply, retryLog,
          requests, oauthUrl, restUrl, r0, s1, s2, result>>

(***************************************************************************)
(* Bounds of the model.                                                    *)
(***************************************************************************)
MaxRetries == 1
MaxThreshold == 0
DeepRetries == 2
LongRetries == 4

(***************************************************************************)
(* JavaScript values.  A string-valued property is a string, "undefined"   *)
(* standing for a property that is not there.  A number-valued option is a *)
(* tagged record, so that undefined, NaN and numbers can be told apart.    *)
(***************************************************************************)
Undef == "undefined"
NotInRequest == "-"

Truthy(v) == v # Undef /\ v # ""

JUndef == [t |-> "undefined", n |-> 0]
JNaN == [t |-> "NaN", n |-> 0]
JNum(k) == [t |-> "number", n |-> k]
JText == [t |-> "string", n |-> 0]

\* Number(v) for the option values of the model: a number is itself, a
\* non-numeric string ('abc', 'invalid') is NaN, undefined is NaN.
ToNumber(v) == IF v.t = "number" THEN v ELSE JNaN

\* a ?? b
Coalesce(a, b) == IF a.t = "undefined" THEN b ELSE a

IsFinite(v) == v.t = "number"

\* process.env as the model runs it: neither THRESHOLD_REMAINING_MIN nor
\* BULLHORN_TTL is set.
ProcessEnv == [THRESHOLD_REMAINING_MIN |-> JUndef, BULLHORN_TTL |-> JUndef]

DefaultThreshold == 100
DefaultTtlDays == 30
DefaultTimeoutMs == 30000
DefaultRetries == 0

(***************************************************************************)
(* Header values are sequences of characters, so that parseInt and String  *)
(* are computed and not assumed.  A header that is not there is            *)
(* Headers.get's null.                                                     *)
(***************************************************************************)
NoHeader == [has |-> FALSE, val |-> <<>>]
Header(chars) == [has |-> TRUE, val |-> chars]

Digits == <<"0", "1", "2", "3", "4", "5", "6", "7", "8", "9">>

IsDigit(c) == \E i \in 1..10 : Digits[i] = c
DigitVal(c) == (CHOOSE i \in 1..10 : Digits[i] = c) - 1
IsSpace(c) == c = " "

RECURSIVE SkipSpaces(_)
SkipSpaces(s) == IF s # <<>> /\ IsSpace(Head(s)) THEN SkipSpaces(Tail(s)) ELSE s

RECURSIVE DigitRun(_)
DigitRun(s) == IF s # <<>> /\ IsDigit(Head(s)) THEN <<Head(s)>> \o DigitRun(Tail(s)) ELSE <<>>

RECURSIVE DigitsValue(_, _)
DigitsValue(s, acc) == IF s = <<>> THEN acc ELSE DigitsValue(Tail(s), 10 * acc + DigitVal(Head(s)))

\* parseInt(s, 10): leading white space is skipped, then an optional sign,
\* then the longest run of digits; NaN when that run is empty.
ParseInt(s) ==
  LET t == SkipSpaces(s)
      neg == t # <<>> /\ Head(t) = "-"
      u == IF t # <<>> /\ Head(t) \in {"-", "+"} THEN Tail(t) ELSE t
      ds == DigitRun(u)
  IN IF ds = <<>> THEN JNaN
     ELSE JNum(IF neg THEN 0 - DigitsValue(ds, 0) ELSE DigitsValue(ds, 0))

RECURSIVE NatChars(_)
NatChars(k) == IF k < 10 THEN <<Digits[k + 1]>> ELSE NatChars(k \div 10) \o <<Digits[(k % 10) + 1]>>

\* the header values the transport may send with a ping response
QuotaHeaders ==
  {Header(NatChars(k)) : k \in 0..(MaxThreshold + 1)}
    \cup {Header(NatChars(DefaultThreshold)), Header(NatChars(DefaultThreshold + 1))}
    \cup {Header(<<"x">>), Header(<<"9", "x">>), Header(<<" ", "9">>), Header(<<"-", "9">>),
          Header(<<>>), NoHeader}

(***************************************************************************)
(* The inputs of a call.                                                   *)
(***************************************************************************)
TokenInputs ==
  [restUrl : {Undef, "U0"}, restToken : {Undef, "T0"},
   refreshToken : {Undef, "R0"}, accessToken : {Undef, "A0"}]

NoTokens == [restUrl |-> Undef, restToken |-> Undef, refreshToken |-> Undef, accessToken |-> Undef]
NoCredentials == [clientId |-> Undef, clientSecret |-> Undef, username |-> Undef, password |-> Undef]
FullCredentials == [clientId |-> "id", clientSecret |-> "sec", username |-> "u", password |-> "p"]

\* credentials: complete, complete but for one field, the username alone, or
\* none.  Credentials absent altogether behave as credentials with no field
\* set: the code reads them only as creds?.x and as !creds || !creds.x
CredentialInputs ==
  {FullCredentials, NoCredentials, [NoCredentials EXCEPT !.username = "u"]}
    \cup {[FullCredentials EXCEPT ![f] = Undef] :
            f \in {"clientId", "clientSecret", "username", "password"}}

ParamsInputs ==
  [isObject : {TRUE}, tokens : TokenInputs, credentials : CredentialInputs]
    \cup {[isObject |-> FALSE, tokens |-> NoTokens, credentials |-> NoCredentials]}

HttpInputs ==
  [retries : {JUndef, JNum(0 - 1)} \cup {JNum(k) : k \in 1..MaxRetries},
   timeoutMs : {JUndef, JNum(0)},
   onRetryAttempt : {"none", "function"}]

ConfigInputs ==
  [minRemainingThreshold : {JUndef, JNum(0 - 1), JText} \cup {JNum(k) : k \in 0..MaxThreshold},
   ttlDays : {JUndef, JNum(0), JText},
   http : HttpInputs]

(***************************************************************************)
(* createHttpOptions, lines 91-108, and the option defaulting of           *)
(* loginToBullhorn, lines 386-396.                                         *)
(***************************************************************************)
TimeoutMs(httpCfg) == IF IsFinite(httpCfg.timeoutMs) THEN httpCfg.timeoutMs.n ELSE DefaultTimeoutMs
Retries(httpCfg) == IF IsFinite(httpCfg.retries) THEN httpCfg.retries.n ELSE DefaultRetries

Threshold(cfg) ==
  ToNumber(Coalesce(cfg.minRemainingThreshold,
                    Coalesce(ProcessEnv.THRESHOLD_REMAINING_MIN, JNum(DefaultThreshold))))

TtlDays(cfg) ==
  ToNumber(Coalesce(cfg.ttlDays, Coalesce(ProcessEnv.BULLHORN_TTL, JNum(DefaultTtlDays))))

NoError == [kind |-> "none", status |-> 0, message |-> ""]
Error(msg) == [kind |-> "Error", status |-> 0, message |-> msg]

\* the validation leaving ttlDays to the restLogin that uses it
ValidationErrorWithoutTtl(prm, cfg) ==
  IF ~prm.isObject THEN Error("params must be an object with credentials and/or tokens")
  ELSE IF TimeoutMs(cfg.http) <= 0 THEN Error("timeoutMs must be a positive number")
  ELSE IF Retries(cfg.http) < 0 THEN Error("retries must be a non-negative number")
  ELSE IF ~IsFinite(Threshold(cfg)) \/ Threshold(cfg).n < 0
    THEN Error("minRemainingThreshold must be a non-negative number")
  ELSE NoError

\* the first validation of lines 381-396 that fails, NoError when none does
ValidationError(prm, cfg) ==
  IF ~prm.isObject THEN Error("params must be an object with credentials and/or tokens")
  ELSE IF TimeoutMs(cfg.http) <= 0 THEN Error("timeoutMs must be a positive number")
  ELSE IF Retries(cfg.http) < 0 THEN Error("retries must be a non-negative number")
  ELSE IF ~IsFinite(Threshold(cfg)) \/ Threshold(cfg).n < 0
    THEN Error("minRemainingThreshold must be a non-negative number")
  ELSE IF ~IsFinite(TtlDays(cfg)) \/ TtlDays(cfg).n <= 0
    THEN Error("ttlDays must be a positive number")
  ELSE NoError

(***************************************************************************)
(* The requests of the six operations: what each hands to fetch.  A field  *)
(* the request does not carry is NotInRequest; a field filled from an      *)
(* undefined value carries "undefined", as the template literal does.      *)
(***************************************************************************)
(***************************************************************************)
(* encodeURIComponent.  A string of the model is an atom to TLC, so the    *)
(* values that hold a reserved character are spelled out, character by     *)
(* character; every other value of the model consists of unreserved        *)
(* characters, which encodeURIComponent leaves as they are.                *)
(***************************************************************************)
Escapes == ("&" :> "%26") @@ ("=" :> "%3D") @@ ("+" :> "%2B") @@ (" " :> "%20")

RECURSIVE Str(_)
Str(chars) == IF chars = <<>> THEN "" ELSE Head(chars) \o Str(Tail(chars))

RECURSIVE EncodeChars(_)
EncodeChars(chars) ==
  IF chars = <<>> THEN ""
  ELSE (IF Head(chars) \in DOMAIN Escapes THEN Escapes[Head(chars)] ELSE Head(chars))
         \o EncodeChars(Tail(chars))

Spellings ==
  {<<"i", "&", "d">>, <<"s", "=", "c">>, <<"u", " ", "1">>, <<"p", "&", "w">>,
   <<"R", "+", "0">>, <<"A", "&", "0">>}

\* the encoding of every value that is spelled out
EncodingOf ==
  [v \in {Str(chars) : chars \in Spellings} |->
     EncodeChars(CHOOSE chars \in Spellings : Str(chars) = v)]

EncodeURIComponent(v) == IF v \in DOMAIN EncodingOf THEN EncodingOf[v] ELSE v

BlankRequest ==
  [op |-> "", method |-> "", base |-> NotInRequest, username |-> NotInRequest,
   password |-> NotInRequest, clientId |-> NotInRequest, clientSecret |-> NotInRequest,
   refreshToken |-> NotInRequest, accessToken |-> NotInRequest, code |-> NotInRequest,
   restToken |-> NotInRequest, ttl |-> 0]

\* lines 172-174
LoginInfoRequest(username) ==
  [BlankRequest EXCEPT !.op = "loginInfo", !.method = "GET",
                       !.base = "https://rest.bullhornstaffing.com/rest-services",
                       !.username = EncodeURIComponent(username)]

\* lines 195-196
Step0Request(oauth, refreshToken, clientId, clientSecret) ==
  [BlankRequest EXCEPT !.op = "step0", !.method = "POST", !.base = oauth,
                       !.refreshToken = refreshToken, !.clientId = clientId,
                       !.clientSecret = clientSecret]

\* lines 231-234
Step1Request(oauth, clientId, username, password) ==
  [BlankRequest EXCEPT !.op = "step1", !.method = "GET", !.base = oauth,
                       !.clientId = clientId, !.username = EncodeURIComponent(username),
                       !.password = EncodeURIComponent(password)]

\* lines 252-253
Step2Request(oauth, clientId, clientSecret, tmpAuthCode) ==
  [BlankRequest EXCEPT !.op = "step2", !.method = "POST", !.base = oauth,
                       !.clientId = clientId, !.clientSecret = clientSecret,
                       !.code = tmpAuthCode]

\* lines 272-274
Step3Request(rest, accessToken, ttlDays) ==
  [BlankRequest EXCEPT !.op = "step3", !.method = "POST", !.base = rest,
                       !.accessToken = accessToken,
                       !.ttl = IF IsFinite(ttlDays) THEN ttlDays.n ELSE DefaultTtlDays]

\* lines 293-294
PingRequest(rest, restToken) ==
  [BlankRequest EXCEPT !.op = "ping", !.method = "GET", !.base = rest,
                       !.restToken = restToken]

(***************************************************************************)
(* The responses of the transport.                                         *)
(***************************************************************************)
RetryableStatuses == {429, 500}
FinalStatuses == {200, 401}

BlankResponse(status) ==
  [status |-> status, remaining |-> NoHeader, location |-> "none", jsonOk |-> TRUE,
   oauthUrl |-> Undef, restUrl |-> Undef, access_token |-> Undef,
   refresh_token |-> Undef, BhRestToken |-> Undef]

RetryableResponses == {BlankResponse(s) : s \in RetryableStatuses}

\* a body that is not JSON: response.json() rejects
NotJson == {[BlankResponse(200) EXCEPT !.jsonOk = FALSE]}

\* an error answer: a 4xx status, and a body with none of the fields of a
\* successful answer
Refused == {BlankResponse(401)}

\* a ping response of either status may carry the rate-limit header
PingResponses ==
  {[BlankResponse(s) EXCEPT !.remaining = h] : s \in FinalStatuses, h \in QuotaHeaders}
    \cup RetryableResponses

\* loginInfo's answer: both URLs, or a body that lacks restUrl, or lacks both
LoginInfoResponses ==
  {[BlankResponse(200) EXCEPT !.oauthUrl = "O1", !.restUrl = "U1"],
   [BlankResponse(200) EXCEPT !.oauthUrl = "O1"],
   BlankResponse(200)}
    \cup Refused \cup NotJson \cup RetryableResponses

\* the token endpoint answering a refresh_token grant; the refresh token it
\* sends may be a new one or the one it was sent
RefreshResponses ==
  {[BlankResponse(200) EXCEPT !.access_token = "A1", !.refresh_token = r] :
      r \in {Undef, "R1", "R0"}}
    \cup {BlankResponse(200)}
    \cup Refused \cup NotJson \cup RetryableResponses

\* the token endpoint answering an authorization_code grant
TokenResponses ==
  {[BlankResponse(200) EXCEPT !.access_token = "A2", !.refresh_token = r] :
      r \in {Undef, "R2"}}
    \cup {BlankResponse(200)}
    \cup Refused \cup NotJson \cup RetryableResponses

\* the authorize endpoint: a redirect whose Location carries a code, carries
\* none, or is missing
AuthorizeResponses ==
  {[BlankResponse(302) EXCEPT !.location = l] : l \in {"none", "nocode", "code"}}
    \cup Refused \cup RetryableResponses

RestLoginResponses ==
  {[BlankResponse(200) EXCEPT !.restUrl = u, !.BhRestToken = t] :
      u \in {Undef, "U2"}, t \in {Undef, "T1"}}
    \cup Refused \cup NotJson \cup RetryableResponses

Operation(at) ==
  CASE at = "ping" -> "ping"
    [] at \in {"refresh_loginInfo", "access_loginInfo", "full_loginInfo"} -> "loginInfo"
    [] at = "refresh_step0" -> "step0"
    [] at = "full_step1" -> "step1"
    [] at = "full_step2" -> "step2"
    [] at \in {"refresh_step3", "access_step3", "full_step3"} -> "step3"
    [] OTHER -> "none"

ResponsesTo(op) ==
  CASE op = "ping" -> PingResponses
    [] op = "loginInfo" -> LoginInfoResponses
    [] op = "step0" -> RefreshResponses
    [] op = "step2" -> TokenResponses
    [] op = "step1" -> AuthorizeResponses
    [] op = "step3" -> RestLoginResponses
    [] OTHER -> {}

(***************************************************************************)
(* The transport is global fetch.  Left free, it answers an attempt in any *)
(* way; stubbed, as the tests stub it, it answers the attempts of each     *)
(* operation by a fixed script, the last answer of the script standing for *)
(* every later attempt.                                                    *)
(***************************************************************************)
Operations == {"ping", "loginInfo", "step0", "step1", "step2", "step3"}

Answer(res) == [kind |-> "response", res |-> res, message |-> ""]
\* fetch rejects with an error that has no response
Rejects == [kind |-> "network", res |-> BlankResponse(0), message |-> "fetch failed"]
Hangs == [kind |-> "timeout", res |-> BlankResponse(0), message |-> "This operation was aborted"]
\* fetch rejects with an error that carries a response status and its own
\* message, as the fetch of the tests does
RejectsWith(status, msg) == [kind |-> "network", res |-> BlankResponse(status), message |-> msg]
ServerError == RejectsWith(500, "Server error")
NetworkDown == RejectsWith(500, "Network error")
\* the ways the fetch of a free transport rejects
Rejections == {Rejects, ServerError}

\* every operation answered at once, as the tests answer it
OkScript ==
  [op \in Operations |->
     CASE op = "ping" ->
            <<Answer([BlankResponse(200) EXCEPT
                        !.remaining = Header(NatChars(DefaultThreshold + 1))])>>
       [] op = "loginInfo" ->
            <<Answer([BlankResponse(200) EXCEPT !.oauthUrl = "O1", !.restUrl = "U1"])>>
       [] op = "step0" ->
            <<Answer([BlankResponse(200) EXCEPT !.access_token = "A1", !.refresh_token = "R1"])>>
       [] op = "step1" -> <<Answer([BlankResponse(302) EXCEPT !.location = "code"])>>
       [] op = "step2" ->
            <<Answer([BlankResponse(200) EXCEPT !.access_token = "A2", !.refresh_token = "R2"])>>
       [] op = "step3" ->
            <<Answer([BlankResponse(200) EXCEPT !.restUrl = "U2", !.BhRestToken = "T1"])>>]

FreeTransport == [fixed |-> FALSE, script |-> OkScript]
Stub(script) == [fixed |-> TRUE, script |-> script]

\* what a script answers to the attempt after `n` failed ones
ScriptedAnswer(script, op, n) ==
  script[op][IF n + 1 < Len(script[op]) THEN n + 1 ELSE Len(script[op])]

(***************************************************************************)
(* Outcomes: of requestWithRetry (a reply), of loginToBullhorn (a result). *)
(***************************************************************************)
NoReply == [ok |-> FALSE, res |-> BlankResponse(0), err |-> NoError]
Returned(res) == [ok |-> TRUE, res |-> res, err |-> NoError]
Thrown(err) == [ok |-> FALSE, res |-> BlankResponse(0), err |-> err]

\* line 129: a 429 or 5xx response becomes an error that carries the response
HttpError(status) == [kind |-> "http", status |-> status, message |-> "HTTP " \o ToString(status)]
\* fetch rejects: no response, so err.response.status is undefined (0 here)
NetworkError == [kind |-> "network", status |-> 0, message |-> "fetch failed"]
\* lines 131 and 138: what fetch rejected with is the error caught, with the
\* status of its response, if any, and its message
Rejected(answer) == [kind |-> "network", status |-> answer.res.status, message |-> answer.message]
\* the abort timer of line 112 fired: fetch rejects with an AbortError
AbortError == [kind |-> "abort", status |-> 0, message |-> "This operation was aborted"]
\* response.json() rejects
JsonError == [kind |-> "SyntaxError", status |-> 0, message |-> "Unexpected token"]
\* url.parse(null), line 236
TypeError == [kind |-> "TypeError", status |-> 0, message |-> "The url argument must be of type string"]

NoValue ==
  [restUrl |-> Undef, restToken |-> Undef, refreshToken |-> Undef, accessToken |-> Undef,
   minRemaining |-> NoHeader, method |-> "none"]
NoResult == [kind |-> "none", value |-> NoValue, error |-> NoError]

\* the locals of loginToBullhorn's blocks
NoR0 == [ok |-> FALSE, accessToken |-> Undef, refreshToken |-> Undef]
NoS2 == [accessToken |-> Undef, refreshToken |-> Undef]
NoLocals == [oauthUrl |-> Undef, restUrl |-> Undef, r0 |-> NoR0, s1 |-> Undef, s2 |-> NoS2]
LocalsOfFirstCall(p) ==
  [oauthUrl |-> oauthUrl[1], restUrl |-> restUrl[1], r0 |-> r0[1], s1 |-> s1[1], s2 |-> s2[1]]

Locals(p) ==
  [oauthUrl |-> oauthUrl[p], restUrl |-> restUrl[p], r0 |-> r0[p], s1 |-> s1[p], s2 |-> s2[p]]

\* where loginToBullhorn goes next: on to awaiting an operation, or out
Go(at, loc) == [pc |-> at, result |-> NoResult, loc |-> loc]
Return(value, loc) ==
  [pc |-> "done", result |-> [kind |-> "return", value |-> value, error |-> NoError], loc |-> loc]
Throw(err, loc) ==
  [pc |-> "done", result |-> [kind |-> "throw", value |-> NoValue, error |-> err], loc |-> loc]

(***************************************************************************)
(* loginToBullhorn's path selection, lines 401-460: which operation the    *)
(* call awaits first when it enters each block.                            *)
(***************************************************************************)
\* the full login not asking for a password
FullLoginWithoutPassword(tokens, creds) ==
  IF ~Truthy(creds.clientId) \/ ~Truthy(creds.clientSecret) \/ ~Truthy(creds.username)
  THEN Throw(Error("Insufficient input: provide either (restUrl+restToken) or (refreshToken+client creds) or full credentials"),
             NoLocals)
  ELSE Go("full_loginInfo", NoLocals)

\* lines 457-462
FullLogin(tokens, creds) ==
  IF ~Truthy(creds.clientId) \/ ~Truthy(creds.clientSecret)
       \/ ~Truthy(creds.username) \/ ~Truthy(creds.password)
  THEN Throw(Error("Insufficient input: provide either (restUrl+restToken) or (refreshToken+client creds) or full credentials"),
             NoLocals)
  ELSE Go("full_loginInfo", NoLocals)

\* the access block not preferring the restUrl of the caller: it wants a
\* username to derive one
TryAccessAlwaysDeriving(tokens, creds) ==
  IF Truthy(tokens.accessToken)
  THEN IF Truthy(creds.username)
       THEN Go("access_loginInfo", [NoLocals EXCEPT !.restUrl = tokens.restUrl])
       ELSE Throw(Error("accessToken provided but restUrl (or credentials.username to derive it) is missing"),
                  NoLocals)
  ELSE FullLogin(tokens, creds)

\* the access block left to the full login when the credentials are complete
TryAccessPreferringFullLogin(tokens, creds) ==
  IF Truthy(tokens.accessToken)
       /\ ~(Truthy(creds.clientId) /\ Truthy(creds.clientSecret)
              /\ Truthy(creds.username) /\ Truthy(creds.password))
  THEN IF ~Truthy(tokens.restUrl) /\ Truthy(creds.username)
       THEN Go("access_loginInfo", [NoLocals EXCEPT !.restUrl = tokens.restUrl])
       ELSE IF ~Truthy(tokens.restUrl)
            THEN Throw(Error("accessToken provided but restUrl (or credentials.username to derive it) is missing"),
                       NoLocals)
            ELSE Go("access_step3", [NoLocals EXCEPT !.restUrl = tokens.restUrl])
  ELSE FullLogin(tokens, creds)

\* the access block never deriving a restUrl: it wants the caller's
TryAccessNotDeriving(tokens, creds) ==
  IF Truthy(tokens.accessToken)
  THEN IF ~Truthy(tokens.restUrl)
       THEN Throw(Error("accessToken provided but restUrl (or credentials.username to derive it) is missing"),
                  NoLocals)
       ELSE Go("access_step3", [NoLocals EXCEPT !.restUrl = tokens.restUrl])
  ELSE FullLogin(tokens, creds)

\* lines 436-447
TryAccess(tokens, creds) ==
  IF Truthy(tokens.accessToken)
  THEN IF ~Truthy(tokens.restUrl) /\ Truthy(creds.username)
       THEN Go("access_loginInfo", [NoLocals EXCEPT !.restUrl = tokens.restUrl])
       ELSE IF ~Truthy(tokens.restUrl)
            THEN Throw(Error("accessToken provided but restUrl (or credentials.username to derive it) is missing"),
                       NoLocals)
            ELSE Go("access_step3", [NoLocals EXCEPT !.restUrl = tokens.restUrl])
  ELSE FullLogin(tokens, creds)

\* lines 419-421
TryRefresh(tokens, creds) ==
  IF Truthy(tokens.refreshToken) /\ Truthy(creds.clientId)
       /\ Truthy(creds.clientSecret) /\ Truthy(creds.username)
  THEN Go("refresh_loginInfo", NoLocals)
  ELSE TryAccess(tokens, creds)

\* the refresh block tried before the ping
TryExistingAfterRefresh(tokens, creds) ==
  IF Truthy(tokens.refreshToken) /\ Truthy(creds.clientId)
       /\ Truthy(creds.clientSecret) /\ Truthy(creds.username)
  THEN Go("refresh_loginInfo", NoLocals)
  ELSE IF Truthy(tokens.restToken) /\ Truthy(tokens.restUrl)
       THEN Go("ping", NoLocals)
       ELSE TryAccess(tokens, creds)

\* the ping block entered with either of restToken and restUrl
TryExistingEitherToken(tokens, creds) ==
  IF Truthy(tokens.restToken) \/ Truthy(tokens.restUrl)
  THEN Go("ping", NoLocals)
  ELSE TryRefresh(tokens, creds)

\* lines 401-403
TryExisting(tokens, creds) ==
  IF Truthy(tokens.restToken) /\ Truthy(tokens.restUrl)
  THEN Go("ping", NoLocals)
  ELSE TryRefresh(tokens, creds)

\* lines 380-399
Enter(prm, cfg) ==
  IF ValidationError(prm, cfg) # NoError
  THEN Throw(ValidationError(prm, cfg), NoLocals)
  ELSE TryExisting(prm.tokens, prm.credentials)

(***************************************************************************)
(* The return values of the operations, from how requestWithRetry settled. *)
(***************************************************************************)
\* lines 291-311
Ping(rep) ==
  IF rep.ok
  THEN [ok |-> TRUE, minRemaining |-> rep.res.remaining, status |-> rep.res.status]
  ELSE [ok |-> FALSE, minRemaining |-> NoHeader, status |-> rep.err.status]

\* lines 168-181
LoginInfo(rep) ==
  IF ~rep.ok THEN [threw |-> TRUE, err |-> rep.err, oauthUrl |-> Undef, restUrl |-> Undef]
  ELSE IF ~rep.res.jsonOk
    THEN [threw |-> TRUE, err |-> JsonError, oauthUrl |-> Undef, restUrl |-> Undef]
  ELSE [threw |-> FALSE, err |-> NoError, oauthUrl |-> rep.res.oauthUrl,
        restUrl |-> rep.res.restUrl]

\* step0 reading both tokens from body.access_token
Step0AccessTokenTwice(rep) ==
  IF rep.ok /\ rep.res.jsonOk
  THEN [ok |-> TRUE, accessToken |-> rep.res.access_token,
        refreshToken |-> rep.res.access_token]
  ELSE [ok |-> FALSE, accessToken |-> Undef, refreshToken |-> Undef]

\* lines 193-217; of the failure detail (status, error, raw) nothing is kept:
\* loginToBullhorn reads ok, accessToken and refreshToken only
Step0(rep) ==
  IF rep.ok /\ rep.res.jsonOk
  THEN [ok |-> TRUE, accessToken |-> rep.res.access_token,
        refreshToken |-> rep.res.refresh_token]
  ELSE [ok |-> FALSE, accessToken |-> Undef, refreshToken |-> Undef]

\* lines 230-239
Step1(rep) ==
  IF ~rep.ok THEN [threw |-> TRUE, err |-> rep.err, tmpAuthCode |-> Undef]
  ELSE IF rep.res.location = "none"
    THEN [threw |-> TRUE, err |-> TypeError, tmpAuthCode |-> Undef]
  ELSE [threw |-> FALSE, err |-> NoError,
        tmpAuthCode |-> IF rep.res.location = "code" THEN "C1" ELSE Undef]

\* lines 251-260
Step2(rep) ==
  IF ~rep.ok THEN [threw |-> TRUE, err |-> rep.err, accessToken |-> Undef, refreshToken |-> Undef]
  ELSE IF ~rep.res.jsonOk
    THEN [threw |-> TRUE, err |-> JsonError, accessToken |-> Undef, refreshToken |-> Undef]
  ELSE [threw |-> FALSE, err |-> NoError, accessToken |-> rep.res.access_token,
        refreshToken |-> rep.res.refresh_token]

\* lines 271-281
Step3(rep) ==
  IF ~rep.ok THEN [threw |-> TRUE, err |-> rep.err, restUrl |-> Undef, restToken |-> Undef]
  ELSE IF ~rep.res.jsonOk
    THEN [threw |-> TRUE, err |-> JsonError, restUrl |-> Undef, restToken |-> Undef]
  ELSE [threw |-> FALSE, err |-> NoError, restUrl |-> rep.res.restUrl,
        restToken |-> rep.res.BhRestToken]

(***************************************************************************)
(* loginToBullhorn between two awaits: what it does with the operation     *)
(* that has just settled.                                                  *)
(***************************************************************************)
\* AfterPing comparing the quota with the literal default and not with the
\* threshold of the call
AfterPingDefaultThreshold(tokens, creds, cfg, rep) ==
  LET pingResult == Ping(rep)
      remaining == ParseInt(IF pingResult.minRemaining.has
                            THEN pingResult.minRemaining.val ELSE <<"0">>)
  IN IF pingResult.ok /\ IsFinite(remaining) /\ remaining.n > DefaultThreshold
     THEN Return([restUrl |-> tokens.restUrl,
                  restToken |-> tokens.restToken,
                  refreshToken |-> tokens.refreshToken,
                  accessToken |-> tokens.accessToken,
                  minRemaining |-> Header(pingResult.minRemaining.val),
                  method |-> "existing"], NoLocals)
     ELSE TryRefresh(tokens, creds)

\* the quota compared with >= instead of >
AfterPingNotStrict(tokens, creds, cfg, rep) ==
  LET pingResult == Ping(rep)
      remaining == ParseInt(IF pingResult.minRemaining.has
                            THEN pingResult.minRemaining.val ELSE <<"0">>)
  IN IF pingResult.ok /\ IsFinite(remaining) /\ remaining.n >= Threshold(cfg).n
     THEN Return([restUrl |-> tokens.restUrl,
                  restToken |-> tokens.restToken,
                  refreshToken |-> tokens.refreshToken,
                  accessToken |-> tokens.accessToken,
                  minRemaining |-> Header(pingResult.minRemaining.val),
                  method |-> "existing"], NoLocals)
     ELSE TryRefresh(tokens, creds)

\* lines 403-417, and on to line 419 when the block is left
AfterPing(tokens, creds, cfg, rep) ==
  LET pingResult == Ping(rep)
      remaining == ParseInt(IF pingResult.minRemaining.has
                            THEN pingResult.minRemaining.val ELSE <<"0">>)
  IN IF pingResult.ok /\ IsFinite(remaining) /\ remaining.n > Threshold(cfg).n
     THEN Return([restUrl |-> tokens.restUrl,
                  restToken |-> tokens.restToken,
                  refreshToken |-> tokens.refreshToken,
                  accessToken |-> tokens.accessToken,
                  minRemaining |-> Header(pingResult.minRemaining.val),
                  method |-> "existing"], NoLocals)
     ELSE TryRefresh(tokens, creds)

\* a failed discovery of the refresh block leaving the block to the full login
AfterRefreshLoginInfoFallingThrough(rep) ==
  LET info == LoginInfo(rep)
  IN IF info.threw THEN Go("full_loginInfo", NoLocals)
     ELSE Go("refresh_step0",
             [NoLocals EXCEPT !.oauthUrl = info.oauthUrl, !.restUrl = info.restUrl])

\* lines 421-422
AfterRefreshLoginInfo(rep) ==
  LET info == LoginInfo(rep)
  IN IF info.threw THEN Throw(info.err, NoLocals)
     ELSE Go("refresh_step0",
             [NoLocals EXCEPT !.oauthUrl = info.oauthUrl, !.restUrl = info.restUrl])

\* a failed exchange falling back to the session the caller supplied
AfterStep0FallingBackToPing(tokens, creds, loc, rep) ==
  IF Step0(rep).ok
  THEN Go("refresh_step3", [loc EXCEPT !.r0 = Step0(rep)])
  ELSE IF Truthy(tokens.restToken) /\ Truthy(tokens.restUrl)
       THEN Go("ping", NoLocals)
       ELSE TryAccess(tokens, creds)

\* lines 422-424 and 433-436
AfterStep0(tokens, creds, loc, rep) ==
  IF Step0(rep).ok
  THEN Go("refresh_step3", [loc EXCEPT !.r0 = Step0(rep)])
  ELSE TryAccess(tokens, creds)

\* the refresh block going on to the full login when its restLogin fails
AfterRefreshStep3FallingThrough(loc, rep) ==
  LET r3 == Step3(rep)
  IN IF r3.threw THEN Go("full_loginInfo", loc)
     ELSE Return([restUrl |-> r3.restUrl,
                  restToken |-> r3.restToken,
                  refreshToken |-> loc.r0.refreshToken,
                  accessToken |-> loc.r0.accessToken,
                  minRemaining |-> NoHeader,
                  method |-> "refresh"], loc)

\* lines 424-431
AfterRefreshStep3(loc, rep) ==
  LET r3 == Step3(rep)
  IN IF r3.threw THEN Throw(r3.err, loc)
     ELSE Return([restUrl |-> r3.restUrl,
                  restToken |-> r3.restToken,
                  refreshToken |-> loc.r0.refreshToken,
                  accessToken |-> loc.r0.accessToken,
                  minRemaining |-> NoHeader,
                  method |-> "refresh"], loc)

\* lines 441-447
AfterAccessLoginInfo(loc, rep) ==
  LET info == LoginInfo(rep)
  IN IF info.threw THEN Throw(info.err, loc)
     ELSE IF ~Truthy(info.restUrl)
       THEN Throw(Error("accessToken provided but restUrl (or credentials.username to derive it) is missing"),
                  [loc EXCEPT !.restUrl = info.restUrl])
     ELSE Go("access_step3", [loc EXCEPT !.restUrl = info.restUrl])

\* the access block returning the REST URL it logged in to
AfterAccessStep3EchoingRestUrl(tokens, loc, rep) ==
  LET s3 == Step3(rep)
  IN IF s3.threw THEN Throw(s3.err, loc)
     ELSE Return([restUrl |-> loc.restUrl,
                  restToken |-> s3.restToken,
                  refreshToken |-> tokens.refreshToken,
                  accessToken |-> tokens.accessToken,
                  minRemaining |-> NoHeader,
                  method |-> "access"], loc)

\* lines 447-454
AfterAccessStep3(tokens, loc, rep) ==
  LET s3 == Step3(rep)
  IN IF s3.threw THEN Throw(s3.err, loc)
     ELSE Return([restUrl |-> s3.restUrl,
                  restToken |-> s3.restToken,
                  refreshToken |-> tokens.refreshToken,
                  accessToken |-> tokens.accessToken,
                  minRemaining |-> NoHeader,
                  method |-> "access"], loc)

\* lines 462-463
AfterFullLoginInfo(rep) ==
  LET info == LoginInfo(rep)
  IN IF info.threw THEN Throw(info.err, NoLocals)
     ELSE Go("full_step1",
             [NoLocals EXCEPT !.oauthUrl = info.oauthUrl, !.restUrl = info.restUrl])

\* lines 463-464
AfterStep1(loc, rep) ==
  IF Step1(rep).threw THEN Throw(Step1(rep).err, loc)
  ELSE Go("full_step2", [loc EXCEPT !.s1 = Step1(rep).tmpAuthCode])

\* the full login keeping the access token of step2 and not its refresh token
AfterStep2DroppingRefreshToken(loc, rep) ==
  IF Step2(rep).threw THEN Throw(Step2(rep).err, loc)
  ELSE Go("full_step3",
          [loc EXCEPT !.s2 = [accessToken |-> Step2(rep).accessToken,
                              refreshToken |-> Undef]])

\* lines 464-465
AfterStep2(loc, rep) ==
  IF Step2(rep).threw THEN Throw(Step2(rep).err, loc)
  ELSE Go("full_step3",
          [loc EXCEPT !.s2 = [accessToken |-> Step2(rep).accessToken,
                              refreshToken |-> Step2(rep).refreshToken]])

\* lines 465-473
AfterFullStep3(loc, rep) ==
  LET s3 == Step3(rep)
  IN IF s3.threw THEN Throw(s3.err, loc)
     ELSE Return([restUrl |-> s3.restUrl,
                  restToken |-> s3.restToken,
                  refreshToken |-> loc.s2.refreshToken,
                  accessToken |-> loc.s2.accessToken,
                  minRemaining |-> NoHeader,
                  method |-> "full"], loc)

\* the refresh block logging in with the access token of the caller
RequestAtStaleAccessToken(at, prm, cfg, loc) ==
  CASE at = "ping" -> PingRequest(prm.tokens.restUrl, prm.tokens.restToken)
    [] at \in {"refresh_loginInfo", "access_loginInfo", "full_loginInfo"} ->
         LoginInfoRequest(prm.credentials.username)
    [] at = "refresh_step0" ->
         Step0Request(loc.oauthUrl, prm.tokens.refreshToken,
                      prm.credentials.clientId, prm.credentials.clientSecret)
    [] at = "refresh_step3" -> Step3Request(loc.restUrl, prm.tokens.accessToken, TtlDays(cfg))
    [] at = "access_step3" -> Step3Request(loc.restUrl, prm.tokens.accessToken, TtlDays(cfg))
    [] at = "full_step1" ->
         Step1Request(loc.oauthUrl, prm.credentials.clientId,
                      prm.credentials.username, prm.credentials.password)
    [] at = "full_step2" ->
         Step2Request(loc.oauthUrl, prm.credentials.clientId,
                      prm.credentials.clientSecret, loc.s1)
    [] at = "full_step3" -> Step3Request(loc.restUrl, loc.s2.accessToken, TtlDays(cfg))
    [] OTHER -> BlankRequest

\* the request of the operation the call awaits at `at`: the arguments
\* loginToBullhorn passes at lines 403, 421, 422, 424, 441, 447, 462-465
RequestAt(at, prm, cfg, loc) ==
  CASE at = "ping" -> PingRequest(prm.tokens.restUrl, prm.tokens.restToken)
    [] at \in {"refresh_loginInfo", "access_loginInfo", "full_loginInfo"} ->
         LoginInfoRequest(prm.credentials.username)
    [] at = "refresh_step0" ->
         Step0Request(loc.oauthUrl, prm.tokens.refreshToken,
                      prm.credentials.clientId, prm.credentials.clientSecret)
    [] at = "refresh_step3" -> Step3Request(loc.restUrl, loc.r0.accessToken, TtlDays(cfg))
    [] at = "access_step3" -> Step3Request(loc.restUrl, prm.tokens.accessToken, TtlDays(cfg))
    [] at = "full_step1" ->
         Step1Request(loc.oauthUrl, prm.credentials.clientId,
                      prm.credentials.username, prm.credentials.password)
    [] at = "full_step2" ->
         Step2Request(loc.oauthUrl, prm.credentials.clientId,
                      prm.credentials.clientSecret, loc.s1)
    [] at = "full_step3" -> Step3Request(loc.restUrl, loc.s2.accessToken, TtlDays(cfg))
    [] OTHER -> BlankRequest

(***************************************************************************)
(* The state machine.                                                      *)
(***************************************************************************)
Min(a, b) == IF a < b THEN a ELSE b

RECURSIVE Pow2(_)
Pow2(k) == IF k <= 0 THEN 1 ELSE 2 * Pow2(k - 1)

BackoffBase == 1000
BackoffCap == 4000

\* the delay doubling without a cap
BackoffMsUncapped(n) == BackoffBase * Pow2(n - 1)

\* line 143
BackoffMs(n) == Min(BackoffBase * Pow2(n - 1), BackoffCap)

Acquisitions == DOMAIN pc

(***************************************************************************)
(* The environment helpers, lines 324-351.  An environment maps a variable *)
(* name to its value, "undefined" when the variable is not set; a variable *)
(* may be set to the empty string.                                         *)
(***************************************************************************)
CredentialVars ==
  [clientId |-> "BH_CLIENT_ID", clientSecret |-> "BH_CLIENT_SECRET",
   username |-> "BH_USERNAME", password |-> "BH_PASSWORD"]
TokenVars ==
  [restUrl |-> "BH_REST_URL", restToken |-> "BH_REST_TOKEN",
   refreshToken |-> "BH_REFRESH_TOKEN", accessToken |-> "BH_ACCESS_TOKEN"]
EnvNames ==
  {CredentialVars[k] : k \in DOMAIN CredentialVars} \cup {TokenVars[k] : k \in DOMAIN TokenVars}

NotCalled == [called |-> FALSE]
Null == [called |-> TRUE, isNull |-> TRUE]
Object(o) == [called |-> TRUE, isNull |-> FALSE, object |-> o]

\* lines 324-333: the four values, when all of them are truthy; null otherwise
credentialsFromEnvAnyPresent(e) ==
  LET read == [k \in DOMAIN CredentialVars |-> e[CredentialVars[k]]]
  IN IF \E k \in DOMAIN read : Truthy(read[k]) THEN Object(read) ELSE Null

credentialsFromEnv(e) ==
  LET read == [k \in DOMAIN CredentialVars |-> e[CredentialVars[k]]]
  IN IF \A k \in DOMAIN read : Truthy(read[k]) THEN Object(read) ELSE Null

\* lines 340-351: the four values are read into an object, and the keys
\* whose value is undefined are deleted from it
tokensFromEnvKeepingAll(e) ==
  LET tokens == [k \in DOMAIN TokenVars |-> e[TokenVars[k]]]
  IN Object(tokens)

tokensFromEnv(e) ==
  LET tokens == [k \in DOMAIN TokenVars |-> e[TokenVars[k]]]
      kept == {k \in DOMAIN tokens : tokens[k] # Undef}
  IN Object([k \in kept |-> tokens[k]])

NoEnv == [n \in EnvNames |-> Undef]

\* the helpers are not called on the environments in `envs`
EnvOf(envs) ==
  /\ env \in envs
  /\ envCredentials = NotCalled
  /\ envTokens = NotCalled

InitOf(P, prms, cfgs, transports) ==
  /\ params \in [P -> prms]
  /\ config \in [P -> cfgs]
  /\ transport \in [P -> transports]
  /\ pc = [p \in P |-> "start"]
  /\ phase = [p \in P |-> "idle"]
  /\ attempt = [p \in P |-> 0]
  /\ lastError = [p \in P |-> NoError]
  /\ timer = [p \in P |-> FALSE]
  /\ reply = [p \in P |-> NoReply]
  /\ retryLog = [p \in P |-> <<>>]
  /\ requests = [p \in P |-> <<>>]
  /\ oauthUrl = [p \in P |-> Undef]
  /\ restUrl = [p \in P |-> Undef]
  /\ r0 = [p \in P |-> NoR0]
  /\ s1 = [p \in P |-> Undef]
  /\ s2 = [p \in P |-> NoS2]
  /\ result = [p \in P |-> NoResult]

Init == InitOf({1}, ParamsInputs, ConfigInputs, {FreeTransport}) /\ EnvOf({NoEnv})

\* loginToBullhorn moves on: it returns, throws, or calls requestWithRetry
\* for its next operation (lines 123-124: attempt = 0, lastError unset).  The
\* locals of the requestWithRetry call that has settled are gone; how it
\* settled stays in reply until the next call.
Proceed(p, ctl) ==
  /\ pc' = [pc EXCEPT ![p] = ctl.pc]
  /\ result' = [result EXCEPT ![p] = ctl.result]
  /\ oauthUrl' = [oauthUrl EXCEPT ![p] = ctl.loc.oauthUrl]
  /\ restUrl' = [restUrl EXCEPT ![p] = ctl.loc.restUrl]
  /\ r0' = [r0 EXCEPT ![p] = ctl.loc.r0]
  /\ s1' = [s1 EXCEPT ![p] = ctl.loc.s1]
  /\ s2' = [s2 EXCEPT ![p] = ctl.loc.s2]
  /\ phase' = [phase EXCEPT ![p] = IF ctl.pc = "done" THEN "idle" ELSE "fetch"]
  /\ attempt' = [attempt EXCEPT ![p] = 0]
  /\ lastError' = [lastError EXCEPT ![p] = NoError]
  /\ retryLog' = [retryLog EXCEPT ![p] = <<>>]
  /\ reply' = [reply EXCEPT ![p] = IF ctl.pc = "done" THEN @ ELSE NoReply]
  /\ UNCHANGED <<env, envCredentials, envTokens, params, config, transport, timer, requests>>

\* the transport of acquisition p may answer its pending attempt with `answer`
Allowed(p, answer) ==
  \/ ~transport[p].fixed
  \/ ScriptedAnswer(transport[p].script, Operation(pc[p]), attempt[p]) = answer

\* lines 380-403: the call starts
Start(p) ==
  /\ pc[p] = "start"
  /\ Proceed(p, Enter(params[p], config[p]))

Event(ev, n, err, ms, threw) ==
  [ev |-> ev, attempt |-> n, status |-> err.status, error |-> err.message,
   ms |-> ms, threw |-> threw]

\* lines 110-115 and 125-127: an attempt is handed to fetch, its timer armed.
\* Every attempt of one requestWithRetry call carries the same request, which
\* is recorded once, with the first attempt.
DoFetch(p) ==
  /\ phase[p] = "fetch"
  /\ attempt[p] <= Retries(config[p].http)
  /\ requests' = [requests EXCEPT ![p] =
                    IF attempt[p] = 0
                    THEN Append(@, RequestAt(pc[p], params[p], config[p], Locals(p)))
                    ELSE @]
  /\ retryLog' = [retryLog EXCEPT ![p] = Append(@, Event("fetch", attempt[p] + 1, NoError, 0, FALSE))]
  /\ timer' = [timer EXCEPT ![p] = TRUE]
  /\ phase' = [phase EXCEPT ![p] = "wait"]
  /\ UNCHANGED <<env, envCredentials, envTokens, params, config, transport, pc, attempt, lastError, reply,
                 oauthUrl, restUrl, r0, s1, s2, result>>

\* the catch block calling onRetryAttempt before it counts the attempt
CaughtReportingOldAttempt(p, err) ==
  LET n == attempt[p] + 1
  IN /\ lastError' = [lastError EXCEPT ![p] = err]
     /\ attempt' = [attempt EXCEPT ![p] = n]
     /\ IF n > Retries(config[p].http)
        THEN /\ reply' = [reply EXCEPT ![p] = Thrown(err)]
             /\ phase' = [phase EXCEPT ![p] = "settled"]
             /\ UNCHANGED retryLog
        ELSE /\ \E threw \in BOOLEAN :
                  retryLog' = [retryLog EXCEPT ![p] =
                     IF config[p].http.onRetryAttempt = "none" THEN @
                     ELSE Append(@, Event("callback", attempt[p], err, 0, threw))]
             /\ phase' = [phase EXCEPT ![p] = "backoff"]
             /\ UNCHANGED reply

\* the catch block letting what onRetryAttempt throws out of requestWithRetry
CaughtPropagatingCallbackFailure(p, err) ==
  LET n == attempt[p] + 1
  IN /\ lastError' = [lastError EXCEPT ![p] = err]
     /\ attempt' = [attempt EXCEPT ![p] = n]
     /\ IF n > Retries(config[p].http)
        THEN /\ reply' = [reply EXCEPT ![p] = Thrown(err)]
             /\ phase' = [phase EXCEPT ![p] = "settled"]
             /\ UNCHANGED retryLog
        ELSE \E threw \in BOOLEAN :
               /\ retryLog' = [retryLog EXCEPT ![p] =
                     IF config[p].http.onRetryAttempt = "none" THEN @
                     ELSE Append(@, Event("callback", n, err, 0, threw))]
               /\ IF threw /\ config[p].http.onRetryAttempt # "none"
                  THEN /\ reply' = [reply EXCEPT ![p] = Thrown(Error("Callback error"))]
                       /\ phase' = [phase EXCEPT ![p] = "settled"]
                  ELSE /\ phase' = [phase EXCEPT ![p] = "backoff"]
                       /\ UNCHANGED reply

\* the catch block keeping the first failure in lastError
CaughtKeepingFirstError(p, err) ==
  LET n == attempt[p] + 1
      kept == IF lastError[p] = NoError THEN err ELSE lastError[p]
  IN /\ lastError' = [lastError EXCEPT ![p] = kept]
     /\ attempt' = [attempt EXCEPT ![p] = n]
     /\ IF n > Retries(config[p].http)
        THEN /\ reply' = [reply EXCEPT ![p] = Thrown(kept)]
             /\ phase' = [phase EXCEPT ![p] = "settled"]
             /\ UNCHANGED retryLog
        ELSE /\ \E threw \in BOOLEAN :
                  retryLog' = [retryLog EXCEPT ![p] =
                     IF config[p].http.onRetryAttempt = "none" THEN @
                     ELSE Append(@, Event("callback", n, err, 0, threw))]
             /\ phase' = [phase EXCEPT ![p] = "backoff"]
             /\ UNCHANGED reply

\* the catch block going to the delay without calling onRetryAttempt
CaughtSkippingCallback(p, err) ==
  LET n == attempt[p] + 1
  IN /\ lastError' = [lastError EXCEPT ![p] = err]
     /\ attempt' = [attempt EXCEPT ![p] = n]
     /\ IF n > Retries(config[p].http)
        THEN /\ reply' = [reply EXCEPT ![p] = Thrown(err)]
             /\ phase' = [phase EXCEPT ![p] = "settled"]
             /\ UNCHANGED retryLog
        ELSE /\ phase' = [phase EXCEPT ![p] = "backoff"]
             /\ UNCHANGED <<reply, retryLog>>

\* the loop left one attempt before the retries are used up
CaughtStoppingEarly(p, err) ==
  LET n == attempt[p] + 1
  IN /\ lastError' = [lastError EXCEPT ![p] = err]
     /\ attempt' = [attempt EXCEPT ![p] = n]
     /\ IF n >= Retries(config[p].http)
        THEN /\ reply' = [reply EXCEPT ![p] = Thrown(err)]
             /\ phase' = [phase EXCEPT ![p] = "settled"]
             /\ UNCHANGED retryLog
        ELSE /\ \E threw \in BOOLEAN :
                  retryLog' = [retryLog EXCEPT ![p] =
                     IF config[p].http.onRetryAttempt = "none" THEN @
                     ELSE Append(@, Event("callback", n, err, 0, threw))]
             /\ phase' = [phase EXCEPT ![p] = "backoff"]
             /\ UNCHANGED reply

\* the callback invoked for the last failure too, before the loop is left
CaughtCallingBackAtTheEnd(p, err) ==
  LET n == attempt[p] + 1
  IN /\ lastError' = [lastError EXCEPT ![p] = err]
     /\ attempt' = [attempt EXCEPT ![p] = n]
     /\ \E threw \in BOOLEAN :
          retryLog' = [retryLog EXCEPT ![p] =
             IF config[p].http.onRetryAttempt = "none" THEN @
             ELSE Append(@, Event("callback", n, err, 0, threw))]
     /\ IF n > Retries(config[p].http)
        THEN /\ reply' = [reply EXCEPT ![p] = Thrown(err)]
             /\ phase' = [phase EXCEPT ![p] = "settled"]
        ELSE /\ phase' = [phase EXCEPT ![p] = "backoff"]
             /\ UNCHANGED reply

\* lines 132-145: the catch block of requestWithRetry.  onRetryAttempt, when
\* it is a function, is called with {attempt, status, error}; it returns or
\* throws, and what it throws is swallowed (lines 137-141).
Caught(p, err) ==
  LET n == attempt[p] + 1
  IN /\ lastError' = [lastError EXCEPT ![p] = err]
     /\ attempt' = [attempt EXCEPT ![p] = n]
     /\ IF n > Retries(config[p].http)
        THEN /\ reply' = [reply EXCEPT ![p] = Thrown(err)]
             /\ phase' = [phase EXCEPT ![p] = "settled"]
             /\ UNCHANGED retryLog
        ELSE /\ \E threw \in BOOLEAN :
                  retryLog' = [retryLog EXCEPT ![p] =
                     IF config[p].http.onRetryAttempt = "none" THEN @
                     ELSE Append(@, Event("callback", n, err, 0, threw))]
             /\ phase' = [phase EXCEPT ![p] = "backoff"]
             /\ UNCHANGED reply

\* the errors the fetch of acquisition p may reject its pending attempt
\* with: any rejection, or the one its script holds
Rejectable(p) ==
  IF transport[p].fixed
  THEN LET answer == ScriptedAnswer(transport[p].script, Operation(pc[p]), attempt[p])
       IN IF answer.kind = "network" THEN {answer} ELSE {}
  ELSE Rejections

\* the responses the transport of acquisition p may give to its pending
\* attempt: any response to the operation, or the one its script holds
Answerable(p) ==
  IF transport[p].fixed
  THEN LET answer == ScriptedAnswer(transport[p].script, Operation(pc[p]), attempt[p])
       IN IF answer.kind = "response" THEN {answer.res} ELSE {}
  ELSE ResponsesTo(Operation(pc[p]))

\* every error status thrown, not only 429 and 5xx
RespondThrowingClientErrors(p) ==
  /\ phase[p] = "wait"
  /\ \E res \in Answerable(p) :
       /\ Allowed(p, Answer(res))
       /\ IF res.status >= 400
          THEN Caught(p, HttpError(res.status))
          ELSE /\ reply' = [reply EXCEPT ![p] = Returned(res)]
               /\ phase' = [phase EXCEPT ![p] = "settled"]
               /\ UNCHANGED <<attempt, lastError, retryLog>>
  /\ timer' = [timer EXCEPT ![p] = FALSE]
  /\ UNCHANGED <<env, envCredentials, envTokens, params, config, transport, pc, requests, oauthUrl, restUrl, r0, s1, s2, result>>

\* lines 115-131: fetch resolves; the timer is cleared (line 118); a 429 or
\* 5xx response is thrown, any other is returned to the operation
Respond(p) ==
  /\ phase[p] = "wait"
  /\ \E res \in Answerable(p) :
       /\ Allowed(p, Answer(res))
       /\ IF res.status >= 500 \/ res.status = 429
          THEN Caught(p, HttpError(res.status))
          ELSE /\ reply' = [reply EXCEPT ![p] = Returned(res)]
               /\ phase' = [phase EXCEPT ![p] = "settled"]
               /\ UNCHANGED <<attempt, lastError, retryLog>>
  /\ timer' = [timer EXCEPT ![p] = FALSE]
  /\ UNCHANGED <<env, envCredentials, envTokens, params, config, transport, pc, requests, oauthUrl, restUrl, r0, s1, s2, result>>

\* fetch rejects: the transport failed
FetchFails(p) ==
  /\ phase[p] = "wait"
  /\ \E answer \in Rejectable(p) :
       /\ Allowed(p, answer)
       /\ Caught(p, Rejected(answer))
  /\ timer' = [timer EXCEPT ![p] = FALSE]
  /\ UNCHANGED <<env, envCredentials, envTokens, params, config, transport, pc, requests, oauthUrl, restUrl, r0, s1, s2, result>>

\* one AbortController for all the calls, that of the first
AbortedByFirstController(p) == CHOOSE q \in Acquisitions : \A r \in Acquisitions : q <= r

\* lines 111-115: the controller is made by the doFetch that arms the timer,
\* and its signal goes to the fetch of that doFetch
AbortedBy(p) == p

\* the expired timer ending the attempt with an empty response
TimerFiresQuietly(p) ==
  /\ phase[p] = "wait"
  /\ timer[p]
  /\ Allowed(p, Hangs)
  /\ reply' = [reply EXCEPT ![p] = Returned(BlankResponse(0))]
  /\ phase' = [phase EXCEPT ![p] = "settled"]
  /\ timer' = [timer EXCEPT ![p] = FALSE]
  /\ UNCHANGED <<env, envCredentials, envTokens, params, config, transport, pc, attempt,
                 lastError, retryLog, requests, oauthUrl, restUrl, r0, s1, s2, result>>

\* line 112: the timer expires and aborts the attempt
TimerFires(p) ==
  /\ phase[p] = "wait"
  /\ timer[p]
  /\ Allowed(p, Hangs)
  /\ phase[AbortedBy(p)] = "wait"
  /\ Caught(AbortedBy(p), AbortError)
  /\ timer' = [timer EXCEPT ![p] = FALSE]
  /\ UNCHANGED <<env, envCredentials, envTokens, params, config, transport, pc, requests, oauthUrl, restUrl, r0, s1, s2, result>>

\* lines 143-144: the backoff delay elapses
Backoff(p) ==
  /\ phase[p] = "backoff"
  /\ retryLog' = [retryLog EXCEPT ![p] =
        Append(@, Event("delay", attempt[p], NoError, BackoffMs(attempt[p]), FALSE))]
  /\ phase' = [phase EXCEPT ![p] = "fetch"]
  /\ UNCHANGED <<env, envCredentials, envTokens, params, config, transport, pc, attempt, lastError, timer, reply, requests,
                 oauthUrl, restUrl, r0, s1, s2, result>>

Settled(p, at) == pc[p] = at /\ phase[p] = "settled"

PingDone(p) ==
  /\ Settled(p, "ping")
  /\ Proceed(p, AfterPing(params[p].tokens, params[p].credentials, config[p], reply[p]))

RefreshLoginInfoDone(p) ==
  /\ Settled(p, "refresh_loginInfo")
  /\ Proceed(p, AfterRefreshLoginInfo(reply[p]))

Step0Done(p) ==
  /\ Settled(p, "refresh_step0")
  /\ Proceed(p, AfterStep0(params[p].tokens, params[p].credentials, Locals(p), reply[p]))

RefreshStep3Done(p) ==
  /\ Settled(p, "refresh_step3")
  /\ Proceed(p, AfterRefreshStep3(Locals(p), reply[p]))

AccessLoginInfoDone(p) ==
  /\ Settled(p, "access_loginInfo")
  /\ Proceed(p, AfterAccessLoginInfo(Locals(p), reply[p]))

AccessStep3Done(p) ==
  /\ Settled(p, "access_step3")
  /\ Proceed(p, AfterAccessStep3(params[p].tokens, Locals(p), reply[p]))

FullLoginInfoDone(p) ==
  /\ Settled(p, "full_loginInfo")
  /\ Proceed(p, AfterFullLoginInfo(reply[p]))

Step1Done(p) ==
  /\ Settled(p, "full_step1")
  /\ Proceed(p, AfterStep1(Locals(p), reply[p]))

Step2Done(p) ==
  /\ Settled(p, "full_step2")
  /\ Proceed(p, AfterStep2(Locals(p), reply[p]))

FullStep3Done(p) ==
  /\ Settled(p, "full_step3")
  /\ Proceed(p, AfterFullStep3(Locals(p), reply[p]))

Next ==
  \/ \E p \in Acquisitions : Start(p)
  \/ \E p \in Acquisitions : DoFetch(p)
  \/ \E p \in Acquisitions : Respond(p)
  \/ \E p \in Acquisitions : FetchFails(p)
  \/ \E p \in Acquisitions : TimerFires(p)
  \/ \E p \in Acquisitions : Backoff(p)
  \/ \E p \in Acquisitions : PingDone(p)
  \/ \E p \in Acquisitions : RefreshLoginInfoDone(p)
  \/ \E p \in Acquisitions : Step0Done(p)
  \/ \E p \in Acquisitions : RefreshStep3Done(p)
  \/ \E p \in Acquisitions : AccessLoginInfoDone(p)
  \/ \E p \in Acquisitions : AccessStep3Done(p)
  \/ \E p \in Acquisitions : FullLoginInfoDone(p)
  \/ \E p \in Acquisitions : Step1Done(p)
  \/ \E p \in Acquisitions : Step2Done(p)
  \/ \E p \in Acquisitions : FullStep3Done(p)

Spec == Init /\ [][Next]_vars

(***************************************************************************)
(* The same call with the progress the code provides for.  The event loop  *)
(* resumes every await whose promise has settled; a pending fetch is       *)
(* answered or rejected, and failing that the timer armed at lines 111-112 *)
(* aborts it; the backoff timer of line 144 fires.  The timer of the fetch *)
(* is cleared at line 118 as soon as fetch resolves, so the read of the    *)
(* body that follows it (response.json() at lines 175, 197, 254 and 275)   *)
(* is under no timer: a body that never ends leaves the call waiting, and  *)
(* no step out of that wait is promised.  ping and step1 read headers only.*)
(***************************************************************************)
Fairness ==
  WF_vars(Next /\ \E p \in Acquisitions :
                    /\ pc'[p] # pc[p] \/ phase'[p] # phase[p]
                    /\ ~(/\ phase[p] = "settled"
                         /\ reply[p].ok
                         /\ Operation(pc[p]) \in {"loginInfo", "step0", "step2", "step3"}))

\* callers with full credentials and every combination of tokens, and a
\* finite number of retries
FairParams == {prm \in ParamsInputs : prm.credentials = FullCredentials}

FairConfigs ==
  {cfg \in ConfigInputs :
     /\ cfg.minRemainingThreshold = JUndef /\ cfg.ttlDays = JUndef
     /\ cfg.http.timeoutMs = JUndef /\ cfg.http.onRetryAttempt = "none"
     /\ cfg.http.retries \in {JNum(k) : k \in 1..MaxRetries}}

InitFair == InitOf({1}, FairParams, FairConfigs, {FreeTransport}) /\ EnvOf({NoEnv})

SpecFair == InitFair /\ [][Next]_vars /\ Fairness

(***************************************************************************)
(* The environment helpers called, each once, on every environment whose   *)
(* variables are unset, empty or set; no acquisition runs.                 *)
(***************************************************************************)
CredentialValues == {Undef, "", "a"}
TokenValues == {Undef, "", "a", "b"}
Environments ==
  {e \in [EnvNames -> TokenValues] :
     \A k \in DOMAIN CredentialVars : e[CredentialVars[k]] \in CredentialValues}

CallCredentialsFromEnv ==
  /\ envCredentials = NotCalled
  /\ envCredentials' = credentialsFromEnv(env)
  /\ UNCHANGED <<env, envTokens, params, config, transport, pc, phase, attempt, lastError,
                 timer, reply, retryLog, requests, oauthUrl, restUrl, r0, s1, s2, result>>

CallTokensFromEnv ==
  /\ envTokens = NotCalled
  /\ envTokens' = tokensFromEnv(env)
  /\ UNCHANGED <<env, envCredentials, params, config, transport, pc, phase, attempt,
                 lastError, timer, reply, retryLog, requests, oauthUrl, restUrl, r0, s1, s2,
                 result>>

InitEnv == InitOf({}, ParamsInputs, ConfigInputs, {FreeTransport}) /\ EnvOf(Environments)

NextEnv ==
  \/ CallCredentialsFromEnv
  \/ CallTokensFromEnv

SpecEnv == InitEnv /\ [][NextEnv]_vars

(***************************************************************************)
(* Two calls of loginToBullhorn with the same arguments, each against a    *)
(* stub of its own, interleaved in every way.                              *)
(***************************************************************************)
ScriptedParams ==
  {[isObject |-> TRUE,
    tokens |-> [restUrl |-> "U0", restToken |-> "T0", refreshToken |-> "R0", accessToken |-> "A0"],
    credentials |-> FullCredentials],
   [isObject |-> TRUE,
    tokens |-> [NoTokens EXCEPT !.accessToken = "A0"],
    credentials |-> [NoCredentials EXCEPT !.username = "u"]],
   [isObject |-> TRUE, tokens |-> NoTokens, credentials |-> FullCredentials]}

ScriptedConfigs ==
  {[minRemainingThreshold |-> JUndef, ttlDays |-> JUndef,
    http |-> [retries |-> JUndef, timeoutMs |-> JUndef, onRetryAttempt |-> "none"]]}
    \cup {[minRemainingThreshold |-> JUndef, ttlDays |-> JUndef,
           http |-> [retries |-> JNum(k), timeoutMs |-> JUndef, onRetryAttempt |-> "function"]] :
            k \in 1..DeepRetries}

\* the fetch of every operation rejects k times with an error that carries
\* status 500, and then answers as it should
Flaky(k) ==
  [op \in Operations |-> [i \in 1..k |-> ServerError] \o OkScript[op]]

\* every operation answered with status 500 k times, and then as it should be
Faulty(k) ==
  [op \in Operations |-> [i \in 1..k |-> Answer(BlankResponse(500))] \o OkScript[op]]

PingRefused == [OkScript EXCEPT !["ping"] = <<Answer(BlankResponse(401))>>]
PingHangs == [OkScript EXCEPT !["ping"] = <<Hangs>>]
ExchangeDown == [PingRefused EXCEPT !["step0"] = <<Rejects>>]

Scripts ==
  {OkScript, PingRefused, PingHangs, ExchangeDown, Faulty(DeepRetries)}
    \cup {Flaky(k) : k \in 1..DeepRetries}

InitScripted ==
  /\ InitOf({1, 2}, ScriptedParams, ScriptedConfigs, {Stub(script) : script \in Scripts})
  /\ EnvOf({NoEnv})
  /\ params[2] = params[1]
  /\ config[2] = config[1]

SpecScripted ==
  /\ InitScripted
  /\ [][Next]_vars

(***************************************************************************)
(* One call of loginToBullhorn against a stub, with enough retries for the *)
(* backoff to reach its cap, and stubs that fail at every attempt.         *)
(***************************************************************************)
RetryConfigs ==
  {[minRemainingThreshold |-> JUndef, ttlDays |-> JUndef,
    http |-> [retries |-> JUndef, timeoutMs |-> JUndef, onRetryAttempt |-> "none"]]}
    \cup {[minRemainingThreshold |-> JUndef, ttlDays |-> JUndef,
           http |-> [retries |-> JNum(k), timeoutMs |-> JUndef, onRetryAttempt |-> "function"]] :
            k \in 0..LongRetries}

\* every attempt of every operation fails the same way
Down(answer) == [op \in Operations |-> <<answer>>]

\* every attempt of every operation fails, each in another way than the one
\* before it
FailureKinds == <<Answer(BlankResponse(500)), Rejects, Hangs, Answer(BlankResponse(429))>>
Unsteady ==
  [op \in Operations |->
     [i \in 1..(LongRetries + 1) |-> FailureKinds[((i - 1) % Len(FailureKinds)) + 1]]]

\* statuses on either side of those that requestWithRetry retries
OtherStatuses == {302, 400, 428, 430, 499, 503}

\* the operation answered 429 once, and then with another status
Throttled(status) ==
  [op \in Operations |-> <<Answer(BlankResponse(429)), Answer(BlankResponse(status))>>]

RetryScripts ==
  {OkScript, PingRefused, Unsteady, Flaky(LongRetries)}
    \cup {Down(FailureKinds[i]) : i \in 1..Len(FailureKinds)}
    \cup {Down(NetworkDown)}
    \cup {ExchangeDown,
          [ExchangeDown EXCEPT !["ping"] = <<Rejects>>],
          [ExchangeDown EXCEPT !["step0"] = <<Answer(BlankResponse(503))>>],
          [PingRefused EXCEPT !["step0"] =
             <<Answer([BlankResponse(200) EXCEPT !.jsonOk = FALSE])>>],
          [PingRefused EXCEPT !["step0"] =
             <<Answer(BlankResponse(429)),
               Answer([BlankResponse(200) EXCEPT !.jsonOk = FALSE])>>]}
    \cup {Down(Answer(BlankResponse(status))) : status \in OtherStatuses}
    \cup {Throttled(status) : status \in OtherStatuses}

\* a caller whose credentials and tokens hold reserved characters
ReservedParams ==
  {[isObject |-> TRUE,
    tokens |-> [restUrl |-> "U0", restToken |-> "T0", refreshToken |-> "R+0", accessToken |-> "A&0"],
    credentials |-> [clientId |-> "i&d", clientSecret |-> "s=c", username |-> "u 1",
                     password |-> "p&w"]],
   [isObject |-> TRUE,
    tokens |-> NoTokens,
    credentials |-> [clientId |-> "i&d", clientSecret |-> "s=c", username |-> "u 1",
                     password |-> "p&w"]]}

InitRetry ==
  /\ InitOf({1}, ScriptedParams \cup ReservedParams, RetryConfigs, {Stub(script) : script \in RetryScripts})
  /\ EnvOf({NoEnv})

SpecRetry ==
  /\ InitRetry
  /\ [][Next]_vars

(***************************************************************************)
(* Properties.  What the transport did is read from reply, what the call   *)
(* asked of it from requests, what the call gave back from result.         *)
(***************************************************************************)
Tokens(p) == params[p].tokens
Credentials(p) == params[p].credentials

\* the acquisition takes the step that consumes the operation awaited at `at`
Leaves(p, at) == Settled(p, at) /\ pc'[p] # at

\* the operations requested so far, by name
OpsOf(rq) == [i \in 1..Len(rq) |-> rq[i].op]

IsPrefix(s, t) == Len(s) <= Len(t) /\ \A i \in 1..Len(s) : s[i] = t[i]

Returns(p, method) == result[p].kind = "return" /\ result[p].value.method = method

\* a transport answer with a success status
Succeeded(rep) == rep.ok /\ rep.res.status \in 200..299

\* a transport answer that is a failure: an error status, or no answer at all
Failed(rep) == ~rep.ok \/ rep.res.status >= 400

\* the ping response reports a quota of q requests left in this minute
ReportsQuota(rep, q) == rep.ok /\ rep.res.remaining = Header(NatChars(q))

Quotas == 0..(DefaultThreshold + 1)

\* C1: when restUrl and restToken are supplied and the ping succeeds
\* reporting a quota strictly greater than the threshold, the call returns
\* method "existing" with the caller's four token values and with
\* minRemaining equal to the quota the ping reported.
C1_PingAboveThresholdReturnsExisting ==
  [][\A p \in Acquisitions :
       (/\ Leaves(p, "ping")
        /\ Succeeded(reply[p])
        /\ \E q \in Quotas : q > Threshold(config[p]).n /\ ReportsQuota(reply[p], q))
       => /\ pc'[p] = "done"
          /\ result'[p].kind = "return"
          /\ result'[p].value =
               [restUrl |-> Tokens(p).restUrl,
                restToken |-> Tokens(p).restToken,
                refreshToken |-> Tokens(p).refreshToken,
                accessToken |-> Tokens(p).accessToken,
                minRemaining |-> reply[p].res.remaining,
                method |-> "existing"]]_vars

\* a call under a threshold of its own returned "existing" after a ping that
\* succeeded with a quota one above it, echoing a refresh and an access token
C1_Witness ==
  \E p \in Acquisitions :
    /\ Returns(p, "existing")
    /\ Succeeded(reply[p])
    /\ config[p].minRemainingThreshold = JNum(0)
    /\ ReportsQuota(reply[p], 1)
    /\ result[p].value.minRemaining = Header(<<"1">>)
    /\ result[p].value.restUrl = "U0" /\ result[p].value.restToken = "T0"
    /\ result[p].value.refreshToken = "R0" /\ result[p].value.accessToken = "A0"

\* C2: if the ping fails (an error status such as 401, a transport failure,
\* or 429/5xx once the retries are used up) the call never returns
\* "existing", whatever headers the failing response carries, and does not
\* raise because of the ping: it goes on to evaluate the refresh path.
C2_FailedPingGoesOnToRefresh ==
  [][\A p \in Acquisitions :
       (Leaves(p, "ping") /\ Failed(reply[p]))
       => /\ ~(result'[p].kind = "return" /\ result'[p].value.method = "existing")
          /\ pc'[p] = TryRefresh(Tokens(p), Credentials(p)).pc
          /\ result'[p] = TryRefresh(Tokens(p), Credentials(p)).result]_vars

\* C3: if the refresh exchange fails (an error status, or a failure of the
\* transport) the call does not raise and does not return "refresh": no
\* restLogin is issued for the refresh path, and evaluation continues with
\* the access-token path and then the full login.
C3_FailedExchangeFallsThrough ==
  [][\A p \in Acquisitions :
       (Leaves(p, "refresh_step0") /\ Failed(reply[p]))
       => /\ pc'[p] # "refresh_step3"
          /\ pc'[p] = TryAccess(Tokens(p), Credentials(p)).pc
          /\ result'[p] = TryAccess(Tokens(p), Credentials(p)).result]_vars

\* the last request the call has issued
LastRequest(p) == requests[p][Len(requests[p])]

\* C4: every result returned has restUrl and restToken both present; for the
\* methods refresh, access and full they are the values of the restLogin
\* response body of the same call, for existing they are the caller's.
C4_ResultHasRestSession ==
  \A p \in Acquisitions :
    result[p].kind = "return"
    => /\ result[p].value.restUrl # Undef
       /\ result[p].value.restToken # Undef
       /\ result[p].value.method \in {"refresh", "access", "full"}
            => /\ LastRequest(p).op = "step3"
               /\ result[p].value.restUrl = reply[p].res.restUrl
               /\ result[p].value.restToken = reply[p].res.BhRestToken
       /\ result[p].value.method = "existing"
            => /\ result[p].value.restUrl = Tokens(p).restUrl
               /\ result[p].value.restToken = Tokens(p).restToken

\* the refresh exchange was answered with a success status and a JSON body
ExchangeSucceeded(rep) == Succeeded(rep) /\ rep.res.jsonOk

\* C5, as stated: when the refresh path is attempted after a failed or
\* below-threshold ping and the exchange succeeds, the result has method
\* "refresh" and its accessToken and refreshToken both differ from the
\* stale refresh token the caller supplied.
C5_RefreshTokensDifferFromStale ==
  \A p \in Acquisitions :
    (result[p].kind = "return" /\ r0[p].ok /\ Truthy(r0[p].accessToken))
    => /\ result[p].value.method = "refresh"
       /\ result[p].value.accessToken # Tokens(p).refreshToken
       /\ result[p].value.refreshToken # Tokens(p).refreshToken

\* C5, amended: when the refresh exchange succeeds the call goes on to
\* restLogin, and the result it then returns has method "refresh" and
\* carries the access_token and the refresh_token of the exchange's response
\* body, whether or not the server issued a refresh token other than the
\* one it was sent.
C5_RefreshResultCarriesIssuedTokens ==
  [][\A p \in Acquisitions :
       /\ (Leaves(p, "refresh_step0") /\ ExchangeSucceeded(reply[p]))
            => /\ pc'[p] = "refresh_step3"
               /\ r0'[p].accessToken = reply[p].res.access_token
               /\ r0'[p].refreshToken = reply[p].res.refresh_token
       /\ (Leaves(p, "refresh_step3") /\ result'[p].kind = "return")
            => /\ result'[p].value.method = "refresh"
               /\ result'[p].value.accessToken = r0[p].accessToken
               /\ result'[p].value.refreshToken = r0[p].refreshToken
               /\ r0'[p] = r0[p]]_vars

\* after a ping, a refresh result with the tokens the exchange issued, both
\* other than the caller's refresh token
C5_Witness ==
  \E p \in Acquisitions :
    /\ Returns(p, "refresh")
    /\ OpsOf(requests[p]) = <<"ping", "loginInfo", "step0", "step3">>
    /\ Tokens(p).refreshToken = "R0"
    /\ result[p].value.accessToken = "A1"
    /\ result[p].value.refreshToken = "R1"

\* what a refresh result says of the requests issued and of the locals
C6_RefreshRequests ==
  \A p \in Acquisitions :
    Returns(p, "refresh")
    => LET rq == requests[p]
           n == Len(rq)
       IN /\ n >= 3
          /\ OpsOf(rq) \in {<<"loginInfo", "step0", "step3">>,
                            <<"ping", "loginInfo", "step0", "step3">>}
          /\ rq[n - 2] = LoginInfoRequest(Credentials(p).username)
          /\ rq[n - 1].refreshToken = Tokens(p).refreshToken
          /\ rq[n - 1].base = oauthUrl[p]
          /\ rq[n].base = restUrl[p]
          /\ rq[n].accessToken = r0[p].accessToken
          /\ result[p].value.accessToken = r0[p].accessToken
          /\ result[p].value.refreshToken = r0[p].refreshToken
          /\ result[p].value.restUrl = reply[p].res.restUrl
          /\ result[p].value.restToken = reply[p].res.BhRestToken

\* the step from the refresh exchange to restLogin keeps the exchange's body
C6_ExchangeBodyKept ==
  \A p \in Acquisitions :
    (Leaves(p, "refresh_step0") /\ pc'[p] = "refresh_step3")
    => /\ reply[p].ok
       /\ r0'[p].accessToken = reply[p].res.access_token
       /\ r0'[p].refreshToken = reply[p].res.refresh_token
       /\ oauthUrl'[p] = oauthUrl[p] /\ restUrl'[p] = restUrl[p]

\* the step from discover to the refresh exchange keeps discovery's body
C6_DiscoveryBodyKept ==
  \A p \in Acquisitions :
    (Leaves(p, "refresh_loginInfo") /\ pc'[p] = "refresh_step0")
    => /\ reply[p].ok
       /\ oauthUrl'[p] = reply[p].res.oauthUrl
       /\ restUrl'[p] = reply[p].res.restUrl

\* C6: on a successful refresh path the requests are discover, then the
\* refresh exchange, then restLogin carrying the access token the exchange
\* returned, and the result has restUrl and restToken from the restLogin
\* body, accessToken and refreshToken from the exchange body, and method
\* "refresh".
C6_RefreshPathSequence ==
  /\ []C6_RefreshRequests
  /\ [][C6_ExchangeBodyKept /\ C6_DiscoveryBodyKept]_vars

\* the scenario of the specification: exchange {A1, R1}, restLogin {U2, T1}
C6_Witness ==
  \E p \in Acquisitions :
    /\ Returns(p, "refresh")
    /\ OpsOf(requests[p]) = <<"loginInfo", "step0", "step3">>
    /\ requests[p][3].accessToken = "A1"
    /\ requests[p][3].base = "U1"
    /\ result[p].value = [restUrl |-> "U2", restToken |-> "T1", refreshToken |-> "R1",
                          accessToken |-> "A1", minRemaining |-> NoHeader,
                          method |-> "refresh"]

\* the caller supplied every token and complete credentials
AllSupplied(p) ==
  /\ params[p].isObject
  /\ Tokens(p) = [restUrl |-> "U0", restToken |-> "T0", refreshToken |-> "R0", accessToken |-> "A0"]
  /\ Credentials(p) = FullCredentials

\* the requests of a call that was given everything
C7_RequestsInPathOrder ==
  \A p \in Acquisitions :
    AllSupplied(p)
    => /\ IsPrefix(OpsOf(requests[p]), <<"ping", "loginInfo", "step0", "step3">>)
       /\ Returns(p, "existing") => OpsOf(requests[p]) = <<"ping">>
       /\ pc[p] \in {"refresh_loginInfo", "refresh_step0", "refresh_step3", "access_step3"}
            => requests[p] # <<>> /\ requests[p][1].op = "ping"
       /\ pc[p] \notin {"access_loginInfo", "full_loginInfo", "full_step1", "full_step2", "full_step3"}

\* the access block is entered from a refresh exchange that gave no tokens
C7_AccessOnlyAfterFailedExchange ==
  \A p \in Acquisitions :
    (AllSupplied(p) /\ pc[p] # "access_step3" /\ pc'[p] = "access_step3")
    => /\ Settled(p, "refresh_step0")
       /\ ~ExchangeSucceeded(reply[p])

\* the refresh block is entered from a ping that has settled
C7_RefreshOnlyAfterPing ==
  \A p \in Acquisitions :
    (AllSupplied(p) /\ pc[p] # "refresh_loginInfo" /\ pc'[p] = "refresh_loginInfo")
    => Settled(p, "ping")

\* C7: the paths are evaluated in the order existing, refresh, access, full.
\* When every token and full credentials are supplied, the first request is
\* the ping; discover and the refresh exchange are issued only after the ping
\* gave no result; a restLogin with the caller's access token is issued only
\* after the refresh exchange failed; authorize is not issued before those
\* paths have been tried.
C7_PathsInOrder ==
  /\ []C7_RequestsInPathOrder
  /\ [][C7_AccessOnlyAfterFailedExchange /\ C7_RefreshOnlyAfterPing]_vars

\* everything supplied: the ping gave nothing, the exchange failed, and the
\* call logged in with the caller's access token
C7_Witness ==
  \E p \in Acquisitions :
    /\ AllSupplied(p)
    /\ Returns(p, "access")
    /\ OpsOf(requests[p]) = <<"ping", "loginInfo", "step0", "step3">>
    /\ requests[p][4].accessToken = "A0"

\* C8: the password is carried by no request other than authorize, and
\* authorize is issued only when neither the existing-session path nor the
\* refresh path produced a result: once a session pinged above threshold or
\* a refresh token was exchanged, no authorize request is issued.
C8_PasswordOnlyInAuthorize ==
  \A p \in Acquisitions :
    LET rq == requests[p]
    IN /\ \A i \in 1..Len(rq) :
            /\ rq[i].password # NotInRequest
                 => rq[i].op = "step1" /\ rq[i].password = Credentials(p).password
            /\ rq[i].op = "step1"
                 => /\ i >= 2 /\ rq[i - 1].op = "loginInfo"
                    /\ \A j \in 1..(i - 1) : rq[j].op \in {"ping", "loginInfo", "step0"}
       /\ (Returns(p, "existing") \/ Returns(p, "refresh") \/ r0[p].ok)
            => \A i \in 1..Len(rq) : rq[i].op # "step1"

\* authorize, carrying the password, issued after a ping and a refresh
\* exchange that both gave nothing
C8_Witness ==
  \E p \in Acquisitions :
    /\ OpsOf(requests[p]) = <<"ping", "loginInfo", "step0", "loginInfo", "step1">>
    /\ requests[p][5].password = "p"
    /\ \A i \in 1..4 : requests[p][i].password = NotInRequest

\* the caller supplied an access token and a restUrl, and nothing else
OnlyAccessAndRestUrl(p) ==
  /\ params[p].isObject
  /\ Tokens(p) = [restUrl |-> "U0", restToken |-> Undef, refreshToken |-> Undef, accessToken |-> "A0"]
  /\ Credentials(p) = NoCredentials

\* C9: when only an access token and a restUrl are supplied, the only
\* network operation issued is restLogin (no ping, discover, refresh
\* exchange, authorize or code exchange), and the call returns method
\* "access" once restLogin is answered.
C9_AccessIssuesOnlyRestLogin ==
  \A p \in Acquisitions :
    (OnlyAccessAndRestUrl(p) /\ ValidationError(params[p], config[p]) = NoError)
    => /\ Len(requests[p]) <= 1
       /\ \A i \in 1..Len(requests[p]) :
            requests[p][i] = Step3Request("U0", "A0", TtlDays(config[p]))
       /\ pc[p] = "done"
            => /\ Len(requests[p]) = 1
               /\ (reply[p].ok /\ reply[p].res.jsonOk) => Returns(p, "access")
               /\ result[p].kind = "return" => result[p].value.method = "access"
               /\ result[p].kind = "throw"
                    => /\ ~(reply[p].ok /\ reply[p].res.jsonOk)
                       /\ result[p].error = IF reply[p].ok THEN JsonError ELSE reply[p].err

\* restLogin alone, answered with a session
C9_Witness ==
  \E p \in Acquisitions :
    /\ OnlyAccessAndRestUrl(p)
    /\ Returns(p, "access")
    /\ OpsOf(requests[p]) = <<"step3">>
    /\ result[p].value.restToken = "T1"

\* C10: every result with method "access" carries the caller's accessToken
\* and refreshToken unchanged (absent if none was supplied), and its restUrl
\* and restToken are those of the restLogin response body, not the caller's
\* and not discovery's.
C10_AccessResultFields ==
  \A p \in Acquisitions :
    Returns(p, "access")
    => /\ result[p].value.accessToken = Tokens(p).accessToken
       /\ result[p].value.refreshToken = Tokens(p).refreshToken
       /\ LastRequest(p).op = "step3"
       /\ reply[p].ok /\ reply[p].res.jsonOk
       /\ result[p].value.restUrl = reply[p].res.restUrl
       /\ result[p].value.restToken = reply[p].res.BhRestToken

\* an access result after discovery: the restUrl returned is restLogin's,
\* neither the one discovered nor one of the caller's, and no refresh token
\* was supplied
C10_Witness ==
  \E p \in Acquisitions :
    /\ Returns(p, "access")
    /\ OpsOf(requests[p]) = <<"loginInfo", "step3">>
    /\ requests[p][2].base = "U1"
    /\ Tokens(p).refreshToken = Undef /\ result[p].value.refreshToken = Undef
    /\ result[p].value.accessToken = "A0"
    /\ result[p].value.restUrl = "U2"
    /\ result[p].value.restToken = "T1"

Raises(p, msg) == result[p].kind = "throw" /\ result[p].error = Error(msg)

AccessTokenError == "accessToken provided but restUrl (or credentials.username to derive it) is missing"
InsufficientInput == "Insufficient input: provide either (restUrl+restToken) or (refreshToken+client creds) or full credentials"

\* C11, as stated: a call that fails with the access-token-path error has
\* issued no network request before the error is raised.
C11_AccessErrorBeforeAnyRequest ==
  \A p \in Acquisitions : Raises(p, AccessTokenError) => requests[p] = <<>>

\* C11, amended: the access-token-path error is raised with no request
\* issued exactly when the caller supplied neither a restUrl nor a username;
\* with a username it is raised only after discovery was asked for the
\* restUrl and answered without one.
C11_AccessErrorWhenNoRestUrl ==
  \A p \in Acquisitions :
    /\ Raises(p, AccessTokenError)
         => /\ Truthy(Tokens(p).accessToken) /\ ~Truthy(Tokens(p).restUrl)
            /\ IF Truthy(Credentials(p).username)
               THEN /\ requests[p] # <<>>
                    /\ LastRequest(p) = LoginInfoRequest(Credentials(p).username)
                    /\ reply[p].ok /\ reply[p].res.jsonOk
                    /\ ~Truthy(reply[p].res.restUrl)
               ELSE requests[p] = <<>>
    /\ pc[p] = "access_step3" => Truthy(restUrl[p])

\* the error raised after discovery answered without a restUrl
C11_Witness ==
  \E p \in Acquisitions :
    /\ Raises(p, AccessTokenError)
    /\ OpsOf(requests[p]) = <<"loginInfo">>
    /\ reply[p].res.oauthUrl = "O1" /\ reply[p].res.restUrl = Undef

\* the credentials are not a complete set
Incomplete(creds) ==
  \E f \in {"clientId", "clientSecret", "username", "password"} : creds[f] = Undef

Valid(p) ==
  /\ params[p].isObject
  /\ config[p].http.timeoutMs = JUndef
  /\ config[p].http.retries \in {JUndef} \cup {JNum(k) : k \in 0..MaxRetries}
  /\ config[p].minRemainingThreshold \in {JUndef} \cup {JNum(k) : k \in 0..MaxThreshold}
  /\ config[p].ttlDays = JUndef

\* C12: with no tokens and no credentials, or credentials that lack any of
\* clientId, clientSecret, username, password, the call raises "Insufficient
\* input" before any network request is issued.
C12_NothingSuppliedIsInsufficient ==
  \A p \in Acquisitions :
    (Valid(p) /\ Tokens(p) = NoTokens /\ Incomplete(Credentials(p)))
    => /\ pc[p] \in {"start", "done"}
       /\ requests[p] = <<>> /\ phase[p] = "idle"
       /\ pc[p] = "done" => Raises(p, InsufficientInput)

\* raised for credentials that lack the password only
C12_Witness ==
  \E p \in Acquisitions :
    /\ Raises(p, InsufficientInput)
    /\ Tokens(p) = NoTokens
    /\ Credentials(p) = [FullCredentials EXCEPT !.password = Undef]
    /\ requests[p] = <<>>

\* the caller's input triggers the ping, the refresh block
PingTriggered(p) == Truthy(Tokens(p).restUrl) /\ Truthy(Tokens(p).restToken)
RefreshTriggered(p) ==
  /\ Truthy(Tokens(p).refreshToken) /\ Truthy(Credentials(p).clientId)
  /\ Truthy(Credentials(p).clientSecret) /\ Truthy(Credentials(p).username)

\* C13, as stated: whenever a call fails with "Insufficient input", for any
\* inputs, no network request has been attempted during that call.
C13_InsufficientBeforeAnyRequest ==
  \A p \in Acquisitions : Raises(p, InsufficientInput) => requests[p] = <<>>

\* C13, amended: whenever a call fails with "Insufficient input", the
\* requests attempted during it are those of the paths its input triggered,
\* which gave nothing: the ping when restUrl and restToken were supplied,
\* discover and the refresh exchange when a refresh token and the client
\* identity were; no request at all when neither was triggered, and never an
\* authorize, code exchange or restLogin.
C13_InsufficientAfterSoftFailures ==
  \A p \in Acquisitions :
    Raises(p, InsufficientInput)
    => /\ OpsOf(requests[p]) =
            (IF PingTriggered(p) THEN <<"ping">> ELSE <<>>)
              \o (IF RefreshTriggered(p) THEN <<"loginInfo", "step0">> ELSE <<>>)
       /\ ~Truthy(Tokens(p).accessToken)
       /\ Incomplete(Credentials(p))

\* "Insufficient input" after a ping, discover and a refresh exchange
C13_Witness ==
  \E p \in Acquisitions :
    /\ Raises(p, InsufficientInput)
    /\ OpsOf(requests[p]) = <<"ping", "loginInfo", "step0">>

\* C14: when every triggered path fails softly (the ping fails, the refresh
\* exchange fails), no access token is supplied and the credentials are not
\* complete, the call raises the one "Insufficient input" error and not the
\* ping's or the exchange's failure; in particular restUrl and restToken
\* alone with a failing ping end in "Insufficient input".
C14_SoftFailuresEndInInsufficientInput ==
  [][\A p \in Acquisitions :
       (/\ ~Truthy(Tokens(p).accessToken) /\ Incomplete(Credentials(p))
        /\ Failed(reply[p])
        /\ \/ Leaves(p, "ping") /\ ~RefreshTriggered(p)
           \/ Leaves(p, "refresh_step0"))
       => /\ pc'[p] = "done"
          /\ result'[p].kind = "throw"
          /\ result'[p].error = Error(InsufficientInput)]_vars

\* what is wrong with the arguments of the call, by the message that says so
Invalidities(p) ==
  {m \in {"params must be an object with credentials and/or tokens",
          "timeoutMs must be a positive number",
          "retries must be a non-negative number",
          "minRemainingThreshold must be a non-negative number",
          "ttlDays must be a positive number"} :
     \/ m = "params must be an object with credentials and/or tokens" /\ ~params[p].isObject
     \/ /\ m = "timeoutMs must be a positive number"
        /\ config[p].http.timeoutMs.t = "number" /\ config[p].http.timeoutMs.n <= 0
     \/ /\ m = "retries must be a non-negative number"
        /\ config[p].http.retries.t = "number" /\ config[p].http.retries.n < 0
     \/ /\ m = "minRemainingThreshold must be a non-negative number"
        /\ \/ config[p].minRemainingThreshold.t = "string"
           \/ config[p].minRemainingThreshold.t = "number" /\ config[p].minRemainingThreshold.n < 0
     \/ /\ m = "ttlDays must be a positive number"
        /\ \/ config[p].ttlDays.t = "string"
           \/ config[p].ttlDays.t = "number" /\ config[p].ttlDays.n <= 0}

\* C15: whatever tokens and credentials are supplied, a params value that
\* is not an object, a timeoutMs <= 0, a retries < 0, a minRemainingThreshold
\* that is negative or not a number, or a ttlDays that is not positive or not
\* a number makes the call fail with the corresponding validation error
\* before any network request is issued.
C15_InvalidArgumentsFailFirst ==
  \A p \in Acquisitions :
    Invalidities(p) # {}
    => /\ pc[p] \in {"start", "done"}
       /\ requests[p] = <<>> /\ phase[p] = "idle" /\ ~timer[p]
       /\ pc[p] = "done"
            => /\ result[p].kind = "throw"
               /\ result[p].error.kind = "Error"
               /\ result[p].error.message \in Invalidities(p)

\* a call given a session that could be pinged, everything else it needs,
\* and a ttlDays of 0, has failed on the ttlDays alone
C15_Witness ==
  \E p \in Acquisitions :
    /\ Raises(p, "ttlDays must be a positive number")
    /\ Invalidities(p) = {"ttlDays must be a positive number"}
    /\ config[p].ttlDays = JNum(0)
    /\ AllSupplied(p)
    /\ requests[p] = <<>>

\* the caller supplied complete credentials and no token
OnlyCredentials(p) ==
  Valid(p) /\ Tokens(p) = NoTokens /\ Credentials(p) = FullCredentials

\* the requests of a full login, and what it returns
C16_FullLoginRequests ==
  \A p \in Acquisitions :
    OnlyCredentials(p)
    => LET rq == requests[p]
       IN /\ IsPrefix(OpsOf(rq), <<"loginInfo", "step1", "step2", "step3">>)
          /\ result[p].kind = "return"
               => /\ Len(rq) = 4
                  /\ rq[1] = LoginInfoRequest("u")
                  /\ rq[2] = Step1Request(oauthUrl[p], "id", "u", "p")
                  /\ rq[3] = Step2Request(oauthUrl[p], "id", "sec", s1[p])
                  /\ rq[4] = Step3Request(restUrl[p], s2[p].accessToken, TtlDays(config[p]))
                  /\ result[p].value =
                       [restUrl |-> reply[p].res.restUrl,
                        restToken |-> reply[p].res.BhRestToken,
                        refreshToken |-> s2[p].refreshToken,
                        accessToken |-> s2[p].accessToken,
                        minRemaining |-> NoHeader,
                        method |-> "full"]
          /\ (pc[p] = "done" /\ Len(rq) = 4 /\ reply[p].ok /\ reply[p].res.jsonOk)
               => Returns(p, "full")

\* the locals of a full login are the bodies of discover and of the code
\* exchange, and a request is started with none under way
C16_FullLoginSteps ==
  \A p \in Acquisitions :
    OnlyCredentials(p)
    => /\ (Leaves(p, "full_loginInfo") /\ pc'[p] = "full_step1")
            => /\ reply[p].ok
               /\ oauthUrl'[p] = reply[p].res.oauthUrl
               /\ restUrl'[p] = reply[p].res.restUrl
       /\ (Leaves(p, "full_step2") /\ pc'[p] = "full_step3")
            => /\ reply[p].ok
               /\ s2'[p].accessToken = reply[p].res.access_token
               /\ s2'[p].refreshToken = reply[p].res.refresh_token
               /\ oauthUrl'[p] = oauthUrl[p] /\ restUrl'[p] = restUrl[p]
       /\ Len(requests'[p]) > Len(requests[p])
            => /\ phase[p] = "fetch" /\ attempt[p] = 0 /\ ~timer[p]
               /\ reply[p] = NoReply
               /\ Len(requests'[p]) = Len(requests[p]) + 1

\* C16: with complete credentials and no tokens the call issues exactly
\* discover, authorize, code exchange, restLogin in that order, each started
\* only after the one before it completed, and returns method "full" with
\* accessToken and refreshToken from the code exchange body and restUrl and
\* restToken from the restLogin body.
C16_FullLoginSequence ==
  /\ []C16_FullLoginRequests
  /\ [][C16_FullLoginSteps]_vars

\* the full login of the test: code C1, tokens {A2, R2}, session {U2, T1}
C16_Witness ==
  \E p \in Acquisitions :
    /\ OnlyCredentials(p)
    /\ OpsOf(requests[p]) = <<"loginInfo", "step1", "step2", "step3">>
    /\ requests[p][3].code = "C1"
    /\ requests[p][4].accessToken = "A2" /\ requests[p][4].base = "U1"
    /\ result[p].kind = "return"
    /\ result[p].value = [restUrl |-> "U2", restToken |-> "T1", refreshToken |-> "R2",
                          accessToken |-> "A2", minRemaining |-> NoHeader, method |-> "full"]

IsCallback(e) == e.ev = "callback"
IsDelay(e) == e.ev = "delay"
IsFetch(e) == e.ev = "fetch"

\* the calls of onRetryAttempt, the delays, the fetches of a requestWithRetry
Callbacks(log) == SelectSeq(log, IsCallback)
Delays(log) == SelectSeq(log, IsDelay)
Fetches(log) == SelectSeq(log, IsFetch)

\* the stub fails the operation with status 500 exactly k times, by a
\* response with that status or by a rejection that carries it, and then
\* answers with a response that is neither 429 nor 5xx
FailsThenSucceeds(script, op, k) ==
  /\ Len(script[op]) = k + 1
  /\ \A i \in 1..k :
       /\ script[op][i].kind \in {"response", "network"}
       /\ script[op][i].res.status = 500
  /\ script[op][k + 1].kind = "response"
  /\ script[op][k + 1].res.status < 500 /\ script[op][k + 1].res.status # 429

\* C17: against a transport that fails with status 500 exactly k times and
\* then succeeds, with retries >= k, requestWithRetry succeeds and
\* onRetryAttempt is called exactly k times, with attempt 1, 2, ..., k in
\* that order.
C17_CallbackOncePerFailure ==
  \A p \in Acquisitions :
    \A k \in 0..(DeepRetries + 1) :
      (/\ phase[p] = "settled"
       /\ transport[p].fixed
       /\ FailsThenSucceeds(transport[p].script, Operation(pc[p]), k)
       /\ Retries(config[p].http) >= k
       /\ config[p].http.onRetryAttempt = "function")
      => /\ reply[p].ok
         /\ reply[p].res = transport[p].script[Operation(pc[p])][k + 1].res
         /\ Len(Fetches(retryLog[p])) = k + 1
         /\ Len(Callbacks(retryLog[p])) = k
         /\ \A i \in 1..k :
              /\ Callbacks(retryLog[p])[i].attempt = i
              /\ Callbacks(retryLog[p])[i].status = 500
              /\ Callbacks(retryLog[p])[i].error
                   = (IF transport[p].script[Operation(pc[p])][i].kind = "response"
                      THEN "HTTP 500"
                      ELSE transport[p].script[Operation(pc[p])][i].message)

\* two failures with 500 and then success, under retries = 2: two calls of
\* onRetryAttempt
C17_Witness ==
  \E p \in Acquisitions :
    /\ phase[p] = "settled" /\ reply[p].ok
    /\ transport[p].script = Flaky(2)
    /\ Callbacks(retryLog[p])[1].status = 500
    /\ Callbacks(retryLog[p])[1].error = "Server error"
    /\ FailsThenSucceeds(transport[p].script, Operation(pc[p]), 2)
    /\ Retries(config[p].http) = 2
    /\ Len(Callbacks(retryLog[p])) = 2
    /\ Callbacks(retryLog[p])[1].attempt = 1 /\ Callbacks(retryLog[p])[2].attempt = 2

\* a retry log with what onRetryAttempt did left out
WithoutThrew(log) == [i \in 1..Len(log) |-> [log[i] EXCEPT !.threw = FALSE]]

\* what the calls of onRetryAttempt did, in order
Threw(log) == [i \in 1..Len(Callbacks(log)) |-> Callbacks(log)[i].threw]

\* C18: a failure raised by onRetryAttempt never propagates and never
\* changes the retry loop: the number of attempts, the delays and the
\* outcome of the operation are those of a run in which the callback
\* returned.
C18_CallbackFailureIsolated ==
  /\ \A p \in Acquisitions :
       \A i \in 1..Len(retryLog[p]) :
         retryLog[p][i].ev = "callback"
         => IF i = Len(retryLog[p])
            THEN phase[p] = "backoff"
            ELSE /\ retryLog[p][i + 1].ev = "delay"
                 /\ retryLog[p][i + 1].ms = BackoffMs(retryLog[p][i].attempt)
  /\ \A p, q \in Acquisitions :
       (/\ transport[p] = transport[q] /\ params[p] = params[q] /\ config[p] = config[q]
        /\ pc[p] = pc[q] /\ requests[p] = requests[q]
        /\ phase[p] = "settled" /\ phase[q] = "settled")
       => /\ reply[p] = reply[q]
          /\ attempt[p] = attempt[q]
          /\ WithoutThrew(retryLog[p]) = WithoutThrew(retryLog[q])

\* the same operation settled in two calls, the callback having thrown
\* each time in one and returned each time in the other
C18_Witness ==
  \E p, q \in Acquisitions :
    /\ transport[p] = transport[q] /\ pc[p] = pc[q] /\ requests[p] = requests[q]
    /\ phase[p] = "settled" /\ phase[q] = "settled"
    /\ reply[p].ok /\ reply[q] = reply[p]
    /\ Threw(retryLog[p]) = <<TRUE, TRUE>>
    /\ Threw(retryLog[q]) = <<FALSE, FALSE>>
    /\ Len(Delays(retryLog[p])) = 2 /\ Delays(retryLog[p]) = Delays(retryLog[q])

\* an acquisition that has not started holds nothing
Untouched(p) ==
  /\ requests[p] = <<>> /\ retryLog[p] = <<>> /\ result[p] = NoResult
  /\ reply[p] = NoReply /\ attempt[p] = 0 /\ lastError[p] = NoError /\ ~timer[p]
  /\ oauthUrl[p] = Undef /\ restUrl[p] = Undef /\ r0[p] = NoR0 /\ s1[p] = Undef
  /\ s2[p] = NoS2

\* C19: two acquisitions with identical inputs against identical
\* fixed-response transports return identical results and issue identical
\* requests; nothing the first acquisition does changes what the second,
\* started after it, finds, requests or returns.
C19_RepeatedCallsAgree ==
  \A p, q \in Acquisitions :
    /\ (pc[p] = "done" /\ pc[q] = "start") => Untouched(q)
    /\ (/\ params[p] = params[q] /\ config[p] = config[q]
        /\ transport[p].fixed /\ transport[p] = transport[q]
        /\ pc[p] = "done" /\ pc[q] = "done")
       => /\ result[p] = result[q]
          /\ requests[p] = requests[q]

\* two calls with the same token set against the same stub, which refuses
\* the ping: both return a refreshed session, after the same four requests
C19_Witness ==
  \E p, q \in Acquisitions :
    /\ p # q /\ params[p] = params[q] /\ config[p] = config[q]
    /\ transport[p] = transport[q] /\ transport[p].script = PingRefused
    /\ pc[p] = "done" /\ pc[q] = "done"
    /\ result[p].kind = "return" /\ result[p].value.method = "refresh"
    /\ result[q] = result[p]
    /\ Len(requests[p]) = 4 /\ requests[q] = requests[p]

\* lines 122-148 against a stub: how requestWithRetry settles when n attempts
\* have failed
RECURSIVE TryFrom(_, _, _, _)
TryFrom(script, op, n, retries) ==
  LET answer == ScriptedAnswer(script, op, n)
      retryable == answer.kind = "response"
                     => (answer.res.status >= 500 \/ answer.res.status = 429)
      err == CASE answer.kind = "response" -> HttpError(answer.res.status)
               [] answer.kind = "network" -> Rejected(answer)
               [] answer.kind = "timeout" -> AbortError
  IN IF ~retryable THEN Returned(answer.res)
     ELSE IF n + 1 > retries THEN Thrown(err)
     ELSE TryFrom(script, op, n + 1, retries)

\* lines 404-470: what loginToBullhorn does with the reply to the operation
\* it awaits at `at`
Continue(at, prm, cfg, loc, rep) ==
  CASE at = "ping" -> AfterPing(prm.tokens, prm.credentials, cfg, rep)
    [] at = "refresh_loginInfo" -> AfterRefreshLoginInfo(rep)
    [] at = "refresh_step0" -> AfterStep0(prm.tokens, prm.credentials, loc, rep)
    [] at = "refresh_step3" -> AfterRefreshStep3(loc, rep)
    [] at = "access_loginInfo" -> AfterAccessLoginInfo(loc, rep)
    [] at = "access_step3" -> AfterAccessStep3(prm.tokens, loc, rep)
    [] at = "full_loginInfo" -> AfterFullLoginInfo(rep)
    [] at = "full_step1" -> AfterStep1(loc, rep)
    [] at = "full_step2" -> AfterStep2(loc, rep)
    [] at = "full_step3" -> AfterFullStep3(loc, rep)

\* loginToBullhorn run to its end from `ctl`, alone against a stub
RECURSIVE RunFrom(_, _, _, _, _)
RunFrom(ctl, prm, cfg, script, reqs) ==
  IF ctl.pc = "done"
  THEN [result |-> ctl.result, requests |-> reqs]
  ELSE RunFrom(Continue(ctl.pc, prm, cfg, ctl.loc,
                        TryFrom(script, Operation(ctl.pc), 0, Retries(cfg.http))),
               prm, cfg, script,
               Append(reqs, RequestAt(ctl.pc, prm, cfg, ctl.loc)))

\* one acquisition running alone against a stub: its requests and its result
Solo(prm, cfg, script) == RunFrom(Enter(prm, cfg), prm, cfg, script, <<>>)

\* what acquisition p holds
Holds(p) ==
  <<pc[p], phase[p], attempt[p], lastError[p], timer[p], reply[p], retryLog[p],
    requests[p], oauthUrl[p], restUrl[p], r0[p], s1[p], s2[p], result[p]>>

\* what acquisition p holds after the step
HoldsNext(p) ==
  <<pc'[p], phase'[p], attempt'[p], lastError'[p], timer'[p], reply'[p], retryLog'[p],
    requests'[p], oauthUrl'[p], restUrl'[p], r0'[p], s1'[p], s2'[p], result'[p]>>

\* a step of one acquisition leaves what the others hold as it was
StepsAlone == \E p \in Acquisitions : \A q \in Acquisitions \ {p} : HoldsNext(q) = Holds(q)

\* the requests an acquisition has issued so far, and its result once it has
\* one, are those of its run alone against the same stub
AsAlone ==
  \A p \in Acquisitions :
    transport[p].fixed
    => LET alone == Solo(params[p], config[p], transport[p].script)
       IN /\ IsPrefix(requests[p], alone.requests)
          /\ pc[p] = "done" => /\ result[p] = alone.result
                               /\ requests[p] = alone.requests

\* C20: two acquisitions running concurrently, their requests, retries and
\* timeouts interleaved in any order, are independent: each issues the
\* requests and reaches the result or failure of its run alone against the
\* same responses, and a timeout or abort in one never cancels a request of
\* the other.
C20_ConcurrentCallsIndependent == []AsAlone /\ [][StepsAlone]_vars

\* one acquisition has timed out at its ping and refreshed while the other,
\* its ping answered in between, has returned the existing session
C20_Witness ==
  \E p, q \in Acquisitions :
    /\ transport[p].script = PingHangs /\ transport[q].script = OkScript
    /\ pc[p] = "done" /\ pc[q] = "done"
    /\ result[p].kind = "return" /\ result[p].value.method = "refresh"
    /\ result[q].kind = "return" /\ result[q].value.method = "existing"
    /\ Len(requests[p]) = 4 /\ Len(requests[q]) = 1

\* the variables of `names` that are set in the environment
SetIn(e, names) == {k \in DOMAIN names : e[names[k]] # Undef}

\* the result of tokensFromEnv has a key for every variable that is set, and
\* for no other, holding the variable's value
TokensAreTheSetVariables ==
  envTokens.called
  => /\ ~envTokens.isNull
     /\ DOMAIN envTokens.object = SetIn(env, TokenVars)
     /\ \A k \in DOMAIN envTokens.object : envTokens.object[k] = env[TokenVars[k]]

\* C21 as stated: the keys of tokensFromEnv's result are those of the four
\* variables that are set, each with the variable's value, and no key of
\* the result holds an empty string.
C21_TokensNeverEmpty ==
  /\ TokensAreTheSetVariables
  /\ envTokens.called => \A k \in DOMAIN envTokens.object : envTokens.object[k] # ""

\* C21: the keys of tokensFromEnv's result are those of the four variables
\* that are set, each with the variable's value; an unset variable yields
\* no key and no key holds undefined, while a variable set to the empty
\* string yields a key holding the empty string.
C21_TokensOfSetVariables ==
  /\ TokensAreTheSetVariables
  /\ envTokens.called
     => /\ \A k \in DOMAIN envTokens.object : envTokens.object[k] # Undef
        /\ \A k \in DOMAIN TokenVars :
             env[TokenVars[k]] = "" => /\ k \in DOMAIN envTokens.object
                                       /\ envTokens.object[k] = ""

\* tokensFromEnv called where one variable is unset, one is empty and two
\* hold different values
C21_Witness ==
  /\ envTokens.called
  /\ env["BH_REST_URL"] = "a" /\ env["BH_REST_TOKEN"] = "b"
  /\ env["BH_REFRESH_TOKEN"] = "" /\ env["BH_ACCESS_TOKEN"] = Undef
  /\ DOMAIN envTokens.object = {"restUrl", "restToken", "refreshToken"}
  /\ envTokens.object["restUrl"] = "a" /\ envTokens.object["restToken"] = "b"
  /\ envTokens.object["refreshToken"] = ""

\* the four credential variables are all set to non-empty values
AllPresent(e) == \A k \in DOMAIN CredentialVars : e[CredentialVars[k]] \notin {Undef, ""}

\* C22: credentialsFromEnv returns {clientId, clientSecret, username,
\* password} if and only if BH_CLIENT_ID, BH_CLIENT_SECRET, BH_USERNAME and
\* BH_PASSWORD are all present with non-empty values, and null in every
\* other case, never a partially filled object.
C22_CredentialsAllOrNull ==
  envCredentials.called
  => IF AllPresent(env)
     THEN /\ ~envCredentials.isNull
          /\ DOMAIN envCredentials.object = {"clientId", "clientSecret", "username", "password"}
          /\ envCredentials.object["clientId"] = env["BH_CLIENT_ID"]
          /\ envCredentials.object["clientSecret"] = env["BH_CLIENT_SECRET"]
          /\ envCredentials.object["username"] = env["BH_USERNAME"]
          /\ envCredentials.object["password"] = env["BH_PASSWORD"]
     ELSE envCredentials = Null

\* credentialsFromEnv has returned null for an environment that sets three
\* of the variables and leaves the password empty
C22_Witness ==
  /\ envCredentials = Null
  /\ env["BH_CLIENT_ID"] = "a" /\ env["BH_CLIENT_SECRET"] = "a"
  /\ env["BH_USERNAME"] = "a" /\ env["BH_PASSWORD"] = ""

\* C23: the quota comparison of the existing-session path is strict: when
\* the ping succeeds and the quota it reports equals the threshold, or is
\* lower, the call does not return "existing" and goes on to the next path
\* that its inputs trigger; the shortfall itself raises nothing, the only
\* failure possible at this point being "Insufficient input" when no other
\* path is triggered.
C23_QuotaComparisonIsStrict ==
  [][\A p \in Acquisitions :
       (/\ Leaves(p, "ping")
        /\ Succeeded(reply[p])
        /\ \E q \in Quotas : q <= Threshold(config[p]).n /\ ReportsQuota(reply[p], q))
       => /\ result'[p].kind # "return"
          /\ IF RefreshTriggered(p) THEN pc'[p] = "refresh_loginInfo"
             ELSE IF Truthy(Tokens(p).accessToken) THEN pc'[p] = "access_step3"
             ELSE IF ~Incomplete(Credentials(p)) THEN pc'[p] = "full_loginInfo"
             ELSE pc'[p] = "done" /\ result'[p] = [kind |-> "throw", value |-> NoValue,
                                                  error |-> Error(InsufficientInput)]
          /\ pc'[p] # "done" => result'[p] = NoResult]_vars

\* a ping has succeeded reporting a quota equal to the threshold, and the
\* call, given nothing but the session, has failed with "Insufficient input"
C23_Witness ==
  \E p \in Acquisitions :
    /\ Raises(p, InsufficientInput)
    /\ OpsOf(requests[p]) = <<"ping">>
    /\ Succeeded(reply[p]) /\ ReportsQuota(reply[p], 0)
    /\ config[p].minRemainingThreshold = JNum(0)

\* C24: when the call returns method "existing", the only request it has
\* issued is the ping of restUrl/ping: no discover, refreshExchange,
\* authorize, codeExchange or restLogin request, and no request carrying
\* clientId, clientSecret, username or password.
C24_ExistingIssuesOnlyPing ==
  \A p \in Acquisitions :
    Returns(p, "existing")
    => /\ Len(requests[p]) = 1
       /\ requests[p][1] = PingRequest(Tokens(p).restUrl, Tokens(p).restToken)
       /\ \A i \in 1..Len(requests[p]) :
            /\ requests[p][i].op \notin {"loginInfo", "step0", "step1", "step2", "step3"}
            /\ requests[p][i].clientId = NotInRequest
            /\ requests[p][i].clientSecret = NotInRequest
            /\ requests[p][i].username = NotInRequest
            /\ requests[p][i].password = NotInRequest

\* a call given every token and full credentials has returned "existing"
C24_Witness ==
  \E p \in Acquisitions :
    /\ Returns(p, "existing")
    /\ RefreshTriggered(p) /\ Truthy(Tokens(p).accessToken)
    /\ ~Incomplete(Credentials(p))
    /\ OpsOf(requests[p]) = <<"ping">>

\* an answer of the transport that requestWithRetry takes for a failed
\* attempt: no response, or a response with status 429 or 5xx
IsFailure(answer) ==
  answer.kind = "response" => (answer.res.status = 429 \/ answer.res.status >= 500)

\* the answers of the stub to the attempts 1..n of the operation
AnswersTo(script, op, n) == [i \in 1..n |-> ScriptedAnswer(script, op, i - 1)]

\* what is raised for a failed attempt: a failure carrying the status for
\* a 429 or 5xx response, a network failure, an abort
FailureOf(answer) ==
  CASE answer.kind = "response" ->
         [kind |-> "http", status |-> answer.res.status,
          message |-> "HTTP " \o ToString(answer.res.status)]
    [] answer.kind = "network" ->
         [kind |-> "network", status |-> answer.res.status, message |-> answer.message]
    [] answer.kind = "timeout" ->
         [kind |-> "abort", status |-> 0, message |-> "This operation was aborted"]

\* C25: when every attempt of a requestWithRetry fails, exactly retries + 1
\* attempts are made, and the failure raised to the caller is the failure
\* of the last attempt, unchanged in kind.
C25_ExhaustionRaisesLastFailure ==
  \A p \in Acquisitions :
    LET n == Retries(config[p].http) + 1
        answers == AnswersTo(transport[p].script, Operation(pc[p]), n)
    IN (/\ phase[p] = "settled"
        /\ transport[p].fixed
        /\ \A i \in 1..n : IsFailure(answers[i]))
       => /\ ~reply[p].ok
          /\ Len(Fetches(retryLog[p])) = n
          /\ attempt[p] = n
          /\ reply[p].err = FailureOf(answers[n])
          /\ reply[p].err.kind = (IF answers[n].kind = "response" THEN "http"
                                  ELSE IF answers[n].kind = "network" THEN "network"
                                  ELSE "abort")

\* three retries against a stub that fails with 500, a network failure, a
\* timeout and 429 in turn: four attempts, and the 429 is what is raised
C25_Witness ==
  \E p \in Acquisitions :
    /\ phase[p] = "settled" /\ ~reply[p].ok
    /\ transport[p].script = Unsteady
    /\ Retries(config[p].http) = 3
    /\ Len(Fetches(retryLog[p])) = 4
    /\ reply[p].err.kind = "http" /\ reply[p].err.status = 429

\* C26 as stated: for each retry, onRetryAttempt is called after the
\* backoff delay of that retry has elapsed and before the next attempt is
\* started: failure, delay, callback, next attempt.
C26_CallbackAfterDelay ==
  \A p \in Acquisitions :
    \A i \in 1..Len(retryLog[p]) :
      retryLog[p][i].ev = "callback"
      => /\ i > 1
         /\ retryLog[p][i - 1].ev = "delay"
         /\ i < Len(retryLog[p]) => retryLog[p][i + 1].ev = "fetch"

\* C26: for each retry, onRetryAttempt is called once, right after the
\* attempt has failed and before the backoff delay of that retry starts;
\* the next attempt is started when the delay has elapsed: failure,
\* callback, delay, next attempt.
C26_CallbackBeforeDelay ==
  \A p \in Acquisitions :
    config[p].http.onRetryAttempt = "function"
    => \A i \in 1..Len(retryLog[p]) :
         /\ retryLog[p][i].ev = "callback"
            => /\ i > 1
               /\ retryLog[p][i - 1].ev = "fetch"
               /\ retryLog[p][i - 1].attempt = retryLog[p][i].attempt
               /\ i < Len(retryLog[p]) => retryLog[p][i + 1].ev = "delay"
               /\ i = Len(retryLog[p]) => phase[p] = "backoff"
         /\ retryLog[p][i].ev = "delay"
            => /\ i > 1
               /\ retryLog[p][i - 1].ev = "callback"
               /\ retryLog[p][i - 1].attempt = retryLog[p][i].attempt
               /\ i < Len(retryLog[p])
                  => /\ retryLog[p][i + 1].ev = "fetch"
                     /\ retryLog[p][i + 1].attempt = retryLog[p][i].attempt + 1

\* a second retry is under way: fetch, callback, delay, twice, then a fetch
C26_Witness ==
  \E p \in Acquisitions :
    /\ Len(retryLog[p]) = 7
    /\ [i \in 1..7 |-> retryLog[p][i].ev]
         = <<"fetch", "callback", "delay", "fetch", "callback", "delay", "fetch">>

\* the delays of `log`, in milliseconds
DelaysMs(log) == [i \in 1..Len(Delays(log)) |-> Delays(log)[i].ms]

\* C27: the delay between failed attempt number n, counting from 1, and the
\* next attempt is min(1000 * 2^(n-1), 4000) milliseconds: 1000, 2000, 4000,
\* 4000, ..., and never more than 4000.
C27_BackoffDoublesToCap ==
  \A p \in Acquisitions :
    LET ms == DelaysMs(retryLog[p])
    IN /\ \A n \in 1..Len(ms) :
            /\ ms[n] = (IF n = 1 THEN 1000 ELSE IF n = 2 THEN 2000 ELSE 4000)
            /\ ms[n] <= 4000
            /\ Delays(retryLog[p])[n].attempt = n
       /\ phase[p] = "wait" => Len(ms) = attempt[p]

\* four attempts have failed and the fifth is awaited
C27_Witness ==
  \E p \in Acquisitions :
    /\ phase[p] = "wait" /\ attempt[p] = 4
    /\ DelaysMs(retryLog[p]) = <<1000, 2000, 4000, 4000>>

\* the attempts, counted from 0, that the stub does not fail
Answered(script, op, retries) ==
  {i \in 0..retries : ~IsFailure(ScriptedAnswer(script, op, i))}

\* C28: among well-formed responses only status 429 and statuses >= 500
\* become a raised, retryable failure, which carries the status; a response
\* with any other status is returned to the operation on the attempt that
\* received it, with no retry, no callback and no delay after it.
C28_OnlyThrottlingAndServerErrorsRetried ==
  \A p \in Acquisitions :
    /\ lastError[p].kind = "http"
       => /\ lastError[p].status = 429 \/ lastError[p].status >= 500
          /\ lastError[p].message = "HTTP " \o ToString(lastError[p].status)
    /\ (phase[p] = "settled" /\ transport[p].fixed)
       => LET script == transport[p].script
              op == Operation(pc[p])
              answered == Answered(script, op, Retries(config[p].http))
          IN IF answered = {}
             THEN ~reply[p].ok
             ELSE LET first == CHOOSE i \in answered : \A j \in answered : i <= j
                  IN /\ reply[p] = [ok |-> TRUE, res |-> ScriptedAnswer(script, op, first).res,
                                    err |-> NoError]
                     /\ attempt[p] = first
                     /\ Len(Fetches(retryLog[p])) = first + 1
                     /\ Len(Delays(retryLog[p])) = first
                     /\ Len(Callbacks(retryLog[p]))
                          = (IF config[p].http.onRetryAttempt = "function" THEN first ELSE 0)
                     /\ retryLog[p][Len(retryLog[p])].ev = "fetch"

\* a response with status 499 has been returned on the first attempt, four
\* retries being allowed
C28_Witness ==
  \E p \in Acquisitions :
    /\ phase[p] = "settled" /\ reply[p].ok
    /\ Retries(config[p].http) = 4
    /\ transport[p].script = Down(Answer(BlankResponse(499)))
    /\ reply[p].res.status = 499
    /\ Len(retryLog[p]) = 1

\* C29: each attempt has a timeout of its own, started with the attempt:
\* when no response arrives within it the attempt is aborted and counts as
\* a failed attempt, raised or retried as the retry policy says, never as a
\* successful empty response; the timer is cancelled when the attempt
\* completes, so that it is armed only while its own attempt is awaited.
C29_TimeoutFailsTheAttempt ==
  \A p \in Acquisitions :
    /\ timer[p] <=> phase[p] = "wait"
    /\ transport[p].fixed
       => LET script == transport[p].script
              op == Operation(pc[p])
          IN /\ lastError[p].kind = "abort"
                => /\ attempt[p] >= 1
                   /\ ScriptedAnswer(script, op, attempt[p] - 1) = Hangs
             /\ (phase[p] \in {"backoff", "settled"} /\ attempt[p] >= 1
                   /\ ScriptedAnswer(script, op, attempt[p] - 1) = Hangs
                   /\ (phase[p] = "settled" => ~reply[p].ok))
                => /\ lastError[p].kind = "abort"
                   /\ Len(Fetches(retryLog[p])) = attempt[p]
             /\ phase[p] = "settled"
                => /\ reply[p].ok
                      => /\ ScriptedAnswer(script, op, attempt[p]).kind = "response"
                         /\ reply[p].res = ScriptedAnswer(script, op, attempt[p]).res
                   /\ ScriptedAnswer(script, op, attempt[p]) = Hangs => ~reply[p].ok
                   /\ (~reply[p].ok /\ ScriptedAnswer(script, op, attempt[p] - 1) = Hangs)
                      => /\ reply[p].err.kind = "abort"
                         /\ attempt[p] = Retries(config[p].http) + 1

\* every attempt timed out under two retries: three attempts, and the abort
\* is raised
C29_Witness ==
  \E p \in Acquisitions :
    /\ phase[p] = "settled" /\ ~reply[p].ok
    /\ transport[p].script = Down(Hangs)
    /\ Retries(config[p].http) = 2
    /\ Len(Fetches(retryLog[p])) = 3
    /\ reply[p].err.kind = "abort"
    /\ ~timer[p]

\* C30: in the full login, when the authorize response has no Location
\* header, or a Location without a `code` parameter, the call fails at that
\* step: no code exchange, no restLogin, no result returned.
C30_AuthorizeWithoutCodeFails ==
  [][\A p \in Acquisitions :
       (/\ Leaves(p, "full_step1")
        /\ reply[p].ok
        /\ reply[p].res.location \in {"none", "nocode"})
       => /\ pc'[p] = "done"
          /\ result'[p].kind = "throw"
          /\ requests'[p] = requests[p]]_vars

\* what a request may hold for a value once it is percent-encoded
Encoded(values) == {NotInRequest} \cup {EncodeURIComponent(v) : v \in values}

\* C31: in every request of the six operations, every credential-bearing or
\* token-bearing value placed in the request target (username, password,
\* clientId, clientSecret, refresh token, access token, authorization code)
\* is percent-encoded before it is inserted.
C31_TargetValuesEncoded ==
  \A p \in Acquisitions :
    \A i \in 1..Len(requests[p]) :
      LET rq == requests[p][i]
      IN /\ rq.username \in Encoded({Credentials(p).username})
         /\ rq.password \in Encoded({Credentials(p).password})
         /\ rq.clientId \in Encoded({Credentials(p).clientId})
         /\ rq.clientSecret \in Encoded({Credentials(p).clientSecret})
         /\ rq.refreshToken \in Encoded({Tokens(p).refreshToken})
         /\ rq.accessToken \in Encoded({Tokens(p).accessToken, "A1", "A2", Undef})
         /\ rq.code \in Encoded({"C1", Undef})

\* the requests of acquisition p for the operation `op`
Issued(p, op) == {i \in 1..Len(requests[p]) : requests[p][i].op = op}

\* C32: an access token supplied without tokens.restUrl but with
\* credentials.username makes the access-token path issue discover for that
\* username and then restLogin against the restUrl that discovery returned,
\* and return method "access"; when tokens.restUrl is supplied it is the
\* one used, and the access-token path issues no discover.
C32_AccessPathResolvesRestUrl ==
  \A p \in Acquisitions :
    /\ pc[p] = "access_loginInfo"
       => /\ Truthy(Tokens(p).accessToken)
          /\ ~Truthy(Tokens(p).restUrl) /\ Truthy(Credentials(p).username)
          /\ phase[p] # "fetch"
             => LastRequest(p) = LoginInfoRequest(Credentials(p).username)
    /\ (pc[p] = "access_step3" /\ phase[p] # "fetch") \/ Returns(p, "access")
       => LET n == Len(requests[p])
          IN /\ Truthy(Tokens(p).accessToken)
             /\ requests[p][n].op = "step3"
             /\ requests[p][n].accessToken = Tokens(p).accessToken
             /\ IF Truthy(Tokens(p).restUrl)
                THEN /\ requests[p][n].base = Tokens(p).restUrl
                     /\ n > 1 => requests[p][n - 1].op \in {"ping", "step0"}
                     /\ Cardinality(Issued(p, "loginInfo")) = Cardinality(Issued(p, "step0"))
                ELSE /\ Truthy(Credentials(p).username)
                     /\ n >= 2
                     /\ requests[p][n - 1] = LoginInfoRequest(Credentials(p).username)
                     /\ requests[p][n].base = "U1"
                     /\ Cardinality(Issued(p, "loginInfo"))
                          = Cardinality(Issued(p, "step0")) + 1
    /\ (/\ pc[p] = "done" /\ Len(requests[p]) >= 1
        /\ Truthy(Tokens(p).accessToken)
        /\ LastRequest(p).op = "step3"
        /\ LastRequest(p).accessToken = Tokens(p).accessToken
        /\ reply[p].ok /\ reply[p].res.jsonOk)
       => Returns(p, "access") \/ Returns(p, "refresh")

\* an access token with a username and no restUrl: discover, then restLogin
\* at the discovered URL, and method "access"
C32_Witness ==
  \E p \in Acquisitions :
    /\ Returns(p, "access")
    /\ ~Truthy(Tokens(p).restUrl) /\ Credentials(p).username = "u"
    /\ OpsOf(requests[p]) = <<"loginInfo", "step3">>
    /\ requests[p][1].username = "u"
    /\ requests[p][2].base = "U1"

\* the characters after leading spaces and one sign
Unsigned(chars) ==
  LET t == SkipSpaces(chars)
  IN IF t # <<>> /\ Head(t) \in {"-", "+"} THEN Tail(t) ELSE t

\* a header value that is a number: digits, after spaces and a sign, and
\* nothing else
IsNumeric(chars) ==
  /\ Unsigned(chars) # <<>>
  /\ \A i \in 1..Len(Unsigned(chars)) : IsDigit(Unsigned(chars)[i])

\* a header value that starts with a number: a digit, after spaces and a sign
StartsWithNumber(chars) == Unsigned(chars) # <<>> /\ IsDigit(Head(Unsigned(chars)))

\* C33 as stated: if the ping succeeds but carries no
\* x-ratelimit-remaining-minute header, or a non-numeric one, the call never
\* returns method "existing", for every threshold >= 0.
C33_NonNumericQuotaNeverExisting ==
  \A p \in Acquisitions :
    (/\ pc[p] = "done" /\ OpsOf(requests[p]) = <<"ping">> /\ reply[p].ok
     /\ ~reply[p].res.remaining.has \/ ~IsNumeric(reply[p].res.remaining.val))
    => ~Returns(p, "existing")

\* C33: if the ping succeeds but carries no x-ratelimit-remaining-minute
\* header, or one that does not start with a number, the remaining quota
\* is taken as 0 or unusable and the call never returns method "existing",
\* for every threshold >= 0 including 0; a header that starts with a number
\* counts as that number whatever follows it.
C33_MissingQuotaNeverExisting ==
  \A p \in Acquisitions :
    /\ (/\ pc[p] = "done" /\ OpsOf(requests[p]) = <<"ping">> /\ reply[p].ok
        /\ ~reply[p].res.remaining.has \/ ~StartsWithNumber(reply[p].res.remaining.val))
       => ~Returns(p, "existing")
    /\ (/\ pc[p] = "done" /\ OpsOf(requests[p]) = <<"ping">> /\ reply[p].ok
        /\ reply[p].res.remaining = Header(<<"9", "x">>)
        /\ Threshold(config[p]).n < 9)
       => Returns(p, "existing")

\* under a threshold of 0 a ping has succeeded without the header, and the
\* call, given nothing but the session, has not returned it
C33_Witness ==
  \E p \in Acquisitions :
    /\ pc[p] = "done" /\ OpsOf(requests[p]) = <<"ping">>
    /\ Succeeded(reply[p]) /\ reply[p].res.remaining = NoHeader
    /\ config[p].minRemainingThreshold = JNum(0)
    /\ Raises(p, InsufficientInput)

\* C34: whenever an access token is supplied, no authorize and no code
\* exchange request is ever issued in that call, whatever its outcome: when
\* the restLogin with the caller's access token fails, the failure is raised
\* and the full login is not tried, complete credentials or not.
C34_AccessTokenExcludesFullLogin ==
  \A p \in Acquisitions :
    Truthy(Tokens(p).accessToken)
    => /\ Issued(p, "step1") = {} /\ Issued(p, "step2") = {}
       /\ pc[p] \notin {"full_loginInfo", "full_step1", "full_step2", "full_step3"}
       /\ ~Returns(p, "full")
       /\ (/\ pc[p] = "done" /\ Len(requests[p]) >= 1
           /\ LastRequest(p).op = "step3"
           /\ LastRequest(p).accessToken = Tokens(p).accessToken
           /\ ~reply[p].ok \/ ~reply[p].res.jsonOk)
          => /\ result[p].kind = "throw"
             /\ result[p].error = (IF reply[p].ok THEN JsonError ELSE reply[p].err)

\* a caller with complete credentials and an access token: the restLogin
\* with that token was refused by the transport, and the call has raised
C34_Witness ==
  \E p \in Acquisitions :
    /\ Credentials(p) = FullCredentials
    /\ Tokens(p).accessToken = "A0" /\ Tokens(p).restUrl = "U0"
    /\ pc[p] = "done" /\ result[p].kind = "throw"
    /\ Len(requests[p]) >= 1
    /\ LastRequest(p) = Step3Request("U0", "A0", TtlDays(config[p]))
    /\ ~reply[p].ok /\ result[p].error = reply[p].err

\* C35: in the refresh path only the exchange is a soft failure: when the
\* discover request of the refresh path fails, the failure is raised to the
\* caller and neither the access-token path nor the full login is tried.
C35_RefreshDiscoveryFailureIsRaised ==
  \A p \in Acquisitions :
    (RefreshTriggered(p) /\ Issued(p, "step0") = {})
    => /\ pc[p] \in {"start", "ping", "refresh_loginInfo", "refresh_step0", "done"}
       /\ Cardinality(Issued(p, "loginInfo")) <= 1
       /\ Issued(p, "step1") = {} /\ Issued(p, "step2") = {} /\ Issued(p, "step3") = {}
       /\ (pc[p] = "done" /\ Issued(p, "loginInfo") # {})
          => /\ ~reply[p].ok \/ ~reply[p].res.jsonOk
             /\ result[p].kind = "throw"
             /\ result[p].error = (IF reply[p].ok THEN JsonError ELSE reply[p].err)

\* a caller with every token and full credentials: the ping was refused, the
\* discovery of the refresh path failed, and the call has raised that failure
C35_Witness ==
  \E p \in Acquisitions :
    /\ Credentials(p) = FullCredentials
    /\ Tokens(p).accessToken = "A0" /\ Tokens(p).refreshToken = "R0"
    /\ pc[p] = "done" /\ OpsOf(requests[p]) = <<"ping", "loginInfo">>
    /\ ~reply[p].ok
    /\ result[p].kind = "throw" /\ result[p].error = reply[p].err

\* C36: after a successful refresh exchange, a failure of the restLogin that
\* follows is raised to the caller: the call does not fall through to the
\* access-token path or the full login, and issues no request after the
\* failed restLogin.
C36_RefreshLoginFailureIsRaised ==
  \A p \in Acquisitions :
    r0[p].ok
    => /\ pc[p] \in {"refresh_step3", "done"}
       /\ Issued(p, "step1") = {} /\ Issued(p, "step2") = {}
       /\ Cardinality(Issued(p, "step3")) <= 1
       /\ Cardinality(Issued(p, "loginInfo")) = 1
       /\ Issued(p, "step3") # {}
          => /\ LastRequest(p).op = "step3"
             /\ requests[p][Len(requests[p]) - 1].op = "step0"
       /\ pc[p] = "done"
          => /\ Issued(p, "step3") # {}
             /\ (~reply[p].ok \/ ~reply[p].res.jsonOk)
                => /\ result[p].kind = "throw"
                   /\ result[p].error = (IF reply[p].ok THEN JsonError ELSE reply[p].err)

\* a caller with every token and full credentials: the exchange succeeded,
\* the restLogin after it failed, and the call has raised that failure
C36_Witness ==
  \E p \in Acquisitions :
    /\ Credentials(p) = FullCredentials /\ Tokens(p).accessToken = "A0"
    /\ r0[p].ok /\ pc[p] = "done"
    /\ OpsOf(requests[p]) = <<"ping", "loginInfo", "step0", "step3">>
    /\ ~reply[p].ok
    /\ result[p].kind = "throw" /\ result[p].error = reply[p].err

\* C37: restLogin is only ever issued with an access token that is present:
\* the caller's, or one contained in the body of a refresh exchange or code
\* exchange response of this call; a token endpoint response without
\* access_token never leads to a restLogin request nor to a result.
C37_RestLoginHasAccessToken ==
  \A p \in Acquisitions :
    \A i \in Issued(p, "step3") :
      /\ Truthy(requests[p][i].accessToken)
      /\ requests[p][i].accessToken \in {Tokens(p).accessToken, "A1", "A2"}

\* the retry budget: the attempts one requestWithRetry call may make
Budget(p) == Retries(config[p].http) + 1

\* ping or the refresh exchange, settled, is a soft failure: the operation
\* returns ok: false to loginToBullhorn
SoftFailure(p, at) ==
  IF at = "ping" THEN ~Ping(reply[p]).ok ELSE ~Step0(reply[p]).ok

\* C38 as stated: ping and the refresh exchange become a soft failure only
\* after the retry budget of the operation is used up: with retries = r and
\* an operation that is always answered 429 or 5xx, or always fails in
\* transport, exactly r + 1 attempts of it are made before the first request
\* of any later path is issued.
C38_SoftFailureOnlyAfterBudget ==
  [][\A p \in Acquisitions : \A at \in {"ping", "refresh_step0"} :
       (Leaves(p, at) /\ SoftFailure(p, at))
       => /\ Len(Fetches(retryLog[p])) = Budget(p)
          /\ attempt[p] = Budget(p)]_vars

\* C38, amended: a ping is a soft failure only when its request has failed,
\* and the request of a ping or of a refresh exchange fails only after the
\* retry budget is used up: with retries = r and an operation that is always
\* answered 429 or 5xx, or always fails in transport, exactly r + 1 attempts
\* of it are made before the first request of any later path is issued.  A
\* refresh exchange is a soft failure also when its response has a body that
\* is not JSON, and then on the attempt that received the response, with no
\* further attempt.
C38_SoftFailureAfterBudget ==
  [][\A p \in Acquisitions : \A at \in {"ping", "refresh_step0"} :
       Leaves(p, at)
       => /\ (/\ transport[p].fixed
              /\ \A i \in 1..Budget(p) :
                   IsFailure(AnswersTo(transport[p].script, Operation(at), Budget(p))[i]))
             => (~reply[p].ok /\ SoftFailure(p, at))
          /\ ~reply[p].ok
             => /\ SoftFailure(p, at)
                /\ Len(Fetches(retryLog[p])) = Budget(p)
                /\ attempt[p] = Budget(p)
          /\ SoftFailure(p, at)
             => /\ ~reply[p].ok \/ (at = "refresh_step0" /\ ~reply[p].res.jsonOk)
                /\ reply[p].ok
                   => /\ Len(Fetches(retryLog[p])) = attempt[p] + 1
                      /\ reply[p].res.status # 429 /\ reply[p].res.status < 500
                /\ LastRequest(p).op = Operation(at)
                /\ Cardinality(Issued(p, Operation(at))) = 1
                /\ requests'[p] = requests[p]
                /\ pc'[p] \notin {"ping", "refresh_step0", "refresh_step3"}]_vars

\* four retries allowed, a ping and a refresh exchange that fetch rejects at
\* every attempt: the ping was left as a soft failure, and the exchange is
\* settled as failed after five attempts, no later request being issued
C38_Witness ==
  \E p \in Acquisitions :
    /\ Settled(p, "refresh_step0") /\ ~reply[p].ok /\ SoftFailure(p, "refresh_step0")
    /\ transport[p].script = [ExchangeDown EXCEPT !["ping"] = <<Rejects>>]
    /\ Retries(config[p].http) = LongRetries
    /\ Len(Fetches(retryLog[p])) = LongRetries + 1
    /\ OpsOf(requests[p]) = <<"ping", "loginInfo", "step0">>

\* C39: after the final failed attempt there is neither a callback nor a
\* delay: when all retries + 1 attempts fail, onRetryAttempt has been invoked
\* exactly `retries` times; with retries = 0 it is never invoked and the
\* first failure is raised at once.
C39_NothingAfterFinalFailure ==
  \A p \in Acquisitions :
    (phase[p] = "settled" /\ ~reply[p].ok)
    => /\ Len(Callbacks(retryLog[p]))
            = (IF config[p].http.onRetryAttempt = "function"
               THEN Retries(config[p].http) ELSE 0)
       /\ Len(Delays(retryLog[p])) = Retries(config[p].http)
       /\ retryLog[p][Len(retryLog[p])].ev = "fetch"
       /\ Retries(config[p].http) = 0
          => /\ Len(retryLog[p]) = 1
             /\ attempt[p] = 1
             /\ reply[p].err = lastError[p]

\* retries = 0 with a callback configured: the one attempt has failed, the
\* failure is raised and the callback was not invoked
C39_Witness ==
  \E p \in Acquisitions :
    /\ phase[p] = "settled" /\ ~reply[p].ok
    /\ config[p].http.onRetryAttempt = "function"
    /\ config[p].http.retries = JNum(0)
    /\ Len(retryLog[p]) = 1 /\ retryLog[p][1].ev = "fetch"
    /\ reply[p].err.kind = "http" /\ reply[p].err.status = 500

\* the attempts of the current operation handed to fetch and not yet
\* answered, failed or timed out
InFlight(p) ==
  Len(Fetches(retryLog[p])) - attempt[p]
    - (IF phase[p] = "settled" /\ reply[p].ok THEN 1 ELSE 0)

\* C40: provided every attempt eventually responds, fails or times out,
\* every acquisition terminates by returning or raising, after at most 7
\* protocol operations of at most retries + 1 attempts each, hence at most
\* 7 * (retries + 1) attempts, with at most one request in flight at any time.
C40_AcquisitionTerminates ==
  /\ <>(\A p \in Acquisitions : pc[p] = "done" /\ result[p].kind \in {"return", "throw"})
  /\ [](\A p \in Acquisitions :
          /\ Len(requests[p]) <= 7
          /\ Len(Fetches(retryLog[p])) <= Budget(p)
          /\ pc[p] # "done" => InFlight(p) \in {0, 1}
          /\ (pc[p] # "done" /\ InFlight(p) = 1) <=> phase[p] = "wait"
          /\ timer[p] <=> phase[p] = "wait")

\* a call that went through all seven operations, the ping and the refresh
\* exchange failing after one retry each, and returned from the full login
C40_Witness ==
  \E p \in Acquisitions :
    /\ pc[p] = "done" /\ Returns(p, "full")
    /\ Retries(config[p].http) = 1
    /\ OpsOf(requests[p])
         = <<"ping", "loginInfo", "step0", "loginInfo", "step1", "step2", "step3">>

====
